---- MODULE Spec2Model ----
(***************************************************************************)
(* Model of the CSV dummy-data generators (src/csv).  The first part       *)
(* models the four transactional row generators, generate_invoice_rows,    *)
(* generate_order_rows, generate_purchase_order_rows and                   *)
(* generate_purchase_invoice_rows, and the custom attribute value          *)
(* generator _random_value_for_attr they share.  The later parts model     *)
(* generate_account_data, the two payment row generators with the          *)
(* generate_*_csv functions, prompt_payment_methods, the entry points of   *)
(* the nine scripts, the saving and loading of a configuration file, the   *)
(* order file generate_account_data writes after the account file, and the *)
(* record count an entry point passes to generation.                       *)
(*                                                                         *)
(* Encoding.                                                               *)
(*  - A Python value held in a row is a record [t, s, n]: t is the Python  *)
(*    type ("str", "int", "float", "bool", "none"), s the text of a str, n *)
(*    the number of an int, the hundredths of a float, 0/1 of a bool.      *)
(*  - A column name is the sequence of the words between its underscores   *)
(*    ("invoice_line_item_id" is <<"invoice","line","item","id">>), so     *)
(*    that str.startswith on the underscore-terminated prefixes of the     *)
(*    code is the prefix relation on sequences.                            *)
(*  - A row (a dict) is a function from column names to values; its DOMAIN *)
(*    is the dict's key set.                                               *)
(*  - The random draws the properties read (parent IDs, accounts, the      *)
(*    number of items, the system/free coin, the system identifier, the    *)
(*    custom attribute values) are drawn independently at every use, from  *)
(*    a finite set of representatives of the drawn range.  The probability *)
(*    gates (random.random() < p) and the draws of filler values are       *)
(*    resolved by `chance`, the profile of the random source, which is     *)
(*    drawn once per parent record.                                        *)
(***************************************************************************)
EXTENDS Integers, Sequences, FiniteSets, TLC

VARIABLES
    gen,                          \* which generator function is called
    account_rows,                 \* argument account_rows (order, purchase order)
    account_ids,                  \* argument account_ids
    count,                        \* argument invoice_count / order_count / ...
    item_config,                  \* argument item_config
    custom_attributes,            \* argument custom_attributes
    line_item_custom_attributes,  \* argument line_item_custom_attributes
    tax_config,                   \* argument tax_config (invoice, purchase invoice)
    warehouse_config,             \* argument warehouse_config (purchase order)
    pc,                           \* position in the function body
    include_system,               \* local include_system
    include_line_items,           \* local include_line_items
    system_identifiers,           \* local system_identifiers
    account_choices,              \* local account_choices
    idx,                          \* outer loop index
    item_idx,                     \* inner loop index
    total_items,                  \* local total_items
    row,                          \* local row (the parent template)
    rows,                         \* local rows (the returned list)
    chance,                       \* the profile of the random source for this parent
    meta,                         \* history: for each element of rows, the loop
                                  \* indices that produced it and the values drawn
                                  \* for its custom attributes before blanking
    used_account_ids,             \* local used_account_ids (generate_account_data)
    used_account_names,           \* local used_account_names (generate_account_data)
    unique_account_id,            \* local account_id (generate_account_data)
    files,                        \* the CSV files written: one element per to_csv call
    invoice_ids,                  \* argument invoice_ids / purchase_invoice_ids
    loaded_ids,                   \* what load_invoice_ids_from_csv returns for the
                                  \* argument invoice_csv_path (<<>> for no path)
    multi_invoice_enabled,        \* argument multi_invoice_enabled
    invoice_choices,              \* local invoice_choices (payment generators)
    selected_invoices,            \* local selected_invoices (payment generators)
    pm,                           \* prompt_payment_methods: its position and locals
    script,                       \* which script runs
    opts,                         \* its command line (argparse result)
    config,                       \* the configuration the generation runs with
    spc,                          \* position in the script's entry point
    inputs_read,                  \* number of input() calls made
    late_inputs,                  \* number of those made after generation started
    batch_i,                      \* index into counts (batch mode)
    n_rows,                       \* rows generated so far for the current file
    written,                      \* the CSV files the script has written
    output,                       \* what the run has printed: kinds of messages
    exit_status,                  \* -1 while the script runs, then its exit status
    config_file,                  \* the JSON document at the --save-config path
    loaded_config                 \* what load_generation_config returned

args == <<gen, account_rows, account_ids, count, item_config, custom_attributes,
          line_item_custom_attributes, tax_config, warehouse_config>>
locals == <<include_system, include_line_items, system_identifiers, account_choices>>
vars == <<gen, account_rows, account_ids, count, item_config, custom_attributes,
          line_item_custom_attributes, tax_config, warehouse_config, pc,
          include_system, include_line_items, system_identifiers, account_choices,
          idx, item_idx, total_items, row, rows, chance, meta,
          used_account_ids, used_account_names, unique_account_id, files,
          invoice_ids, loaded_ids, multi_invoice_enabled, invoice_choices,
          selected_invoices, pm, script, opts, config, spc, inputs_read, late_inputs,
          batch_i, n_rows, written, output, exit_status, config_file, loaded_config>>
\* the configuration file and the mapping read back from it
json_state == <<config_file, loaded_config>>
\* the state of a script's entry point and of the prompt functions
script_state == <<pm, script, opts, config, spc, inputs_read, late_inputs,
                  batch_i, n_rows, written, output, exit_status, json_state>>
\* the arguments and locals of the two payment row generators
payment_state == <<invoice_ids, loaded_ids, multi_invoice_enabled, invoice_choices,
                   selected_invoices>>
\* the state of the other functions, which the four row generators leave alone
others == <<used_account_ids, used_account_names, unique_account_id, files, payment_state,
            script_state>>

-----------------------------------------------------------------------------
(* Bounds of the model.                                                    *)

\* largest record count passed to a row generator
MaxCount == 1
\* largest value of the min/max items-per-parent settings
MaxItems == 2

-----------------------------------------------------------------------------
(* Python values.                                                          *)

PyStr(x) == [t |-> "str", s |-> x, n |-> 0]
PyInt(x) == [t |-> "int", s |-> "", n |-> x]
PyFloat(x) == [t |-> "float", s |-> "", n |-> x]
PyBool(b) == [t |-> "bool", s |-> "", n |-> IF b THEN 1 ELSE 0]
PyNone == [t |-> "none", s |-> "", n |-> 0]
\* no file at the path
NoFile == [j |-> "absent"]
Blank == PyStr("")

\* Python truthiness, as used by `x or default` and `if x`
Truthy(v) ==
    CASE v.t = "none" -> FALSE
      [] v.t = "str" -> v.s # ""
      [] OTHER -> v.n # 0

\* x or d
OrElse(v, d) == IF Truthy(v) THEN v ELSE d

\* dict.get(key, default) on an item_config record whose absent keys hold PyNone
GetOr(v, d) == IF v = PyNone THEN d ELSE v

Max2(a, b) == IF a >= b THEN a ELSE b
Min2(a, b) == IF a <= b THEN a ELSE b

Range(s) == {s[i] : i \in DOMAIN s}

\* key.startswith(prefix) for a prefix that ends with an underscore
StartsWith(key, prefix) ==
    /\ Len(key) > Len(prefix)
    /\ SubSeq(key, 1, Len(prefix)) = prefix

\* str.strip() on the account ID texts the model passes in
Strip(s) ==
    CASE s = " " -> ""
      [] s = " CSV-ACC-10000-CUS " -> "CSV-ACC-10000-CUS"
      [] s = " CSV-INV-100000 " -> "CSV-INV-100000"
      [] OTHER -> s

-----------------------------------------------------------------------------
(* Custom attribute specifications and _random_value_for_attr.             *)

Attr(col, type, constant, value, options, qmin, qmax) ==
    [column_name |-> col, type |-> type, constant |-> constant, value |-> value,
     options |-> options, quantity_min |-> qmin, quantity_max |-> qmax]

RECURSIVE JoinComma(_)
\* ",".join(seq)
JoinComma(seq) ==
    IF Len(seq) = 0 THEN ""
    ELSE IF Len(seq) = 1 THEN seq[1]
    ELSE seq[1] \o "," \o JoinComma(Tail(seq))

\* random.choices(options, k=k): k elements, the same position allowed twice
MutSamplesWithReplacement(options, k) ==
    {[i \in 1..k |-> options[p[i]]] : p \in [1..k -> 1..Len(options)]}

\* random.sample(options, k): k elements at pairwise distinct positions, in any order
Samples(options, k) ==
    {[i \in 1..k |-> options[p[i]]] :
        p \in {q \in [1..k -> 1..Len(options)] :
                 \A i, j \in 1..k : i # j => q[i] # q[j]}}

\* the values "checkboxes" and "dropdown_multi" may yield
MultiChoiceValues(options) ==
    IF Len(options) = 0 THEN {Blank}
    ELSE {PyStr(JoinComma(smp)) : smp \in UNION {Samples(options, k) : k \in 1..Len(options)}}

\* the values "dropdown" and "radio" may yield
SingleChoiceValues(options) ==
    IF Len(options) = 0 THEN {Blank} ELSE {PyStr(o) : o \in Range(options)}

\* the values "quantity" may yield: `or` defaults, int(), swap, randint
QuantityValues(attr) ==
    LET qmin == OrElse(attr.quantity_min, PyInt(1)).n
        qmax == OrElse(attr.quantity_max, PyInt(50)).n
        lo == IF qmin > qmax THEN qmax ELSE qmin
        hi == IF qmin > qmax THEN qmin ELSE qmax
    IN  {PyInt(v) : v \in lo..hi}

\* the set of values _random_value_for_attr(attr) may return
random_value_for_attr(attr) ==
    LET options == attr.options
    IN  CASE attr.type = "bool" -> {PyBool(TRUE), PyBool(FALSE)}
          [] attr.type = "checkboxes" -> MultiChoiceValues(options)
          [] attr.type = "date" -> {PyStr("2025-11-05"), PyStr("2027-11-05")}
          [] attr.type = "dropdown" -> SingleChoiceValues(options)
          [] attr.type = "dropdown_multi" -> MultiChoiceValues(options)
          [] attr.type = "money" -> {PyFloat(100), PyFloat(1000000)}
          [] attr.type = "quantity" -> QuantityValues(attr)
          [] attr.type = "number" -> {PyInt(0), PyInt(1000)}
          [] attr.type = "string" -> {PyStr("word")}
          [] attr.type = "radio" -> SingleChoiceValues(options)
          [] attr.type = "text" -> {PyStr("Six words of filler text.")}
          [] OTHER -> {Blank}

\* one drawn value per attribute of the list, in list order
RECURSIVE AttrDraws(_)
AttrDraws(attrs) ==
    IF Len(attrs) = 0 THEN {<<>>}
    ELSE {<<v>> \o rest : v \in random_value_for_attr(Head(attrs)),
                          rest \in AttrDraws(Tail(attrs))}

\* d[k] = v on a dict
Put(d, k, v) == [x \in DOMAIN d \cup {k} |-> IF x = k THEN v ELSE d[x]]

\* for attr in attrs: item_row[attr["column_name"]] = <the value drawn for attr>
RECURSIVE ApplyAttrs(_, _, _)
ApplyAttrs(d, attrs, vs) ==
    IF Len(attrs) = 0 THEN d
    ELSE ApplyAttrs(Put(d, Head(attrs).column_name, Head(vs)), Tail(attrs), Tail(vs))

-----------------------------------------------------------------------------
(* What the four generators differ in.                                     *)

Generators == {"invoice", "order", "purchase_order", "purchase_invoice"}

\* generate_payment_rows and generate_purchase_payment_rows
PaymentGenerators == {"payment", "purchase_payment"}

\* the arguments the payment generators are called with: invoice_ids (None and
\* the empty list are both <<>>) and the IDs the invoice CSV gives
InvoiceIdArgs == {<<>>, <<" ">>, <<"CSV-INV-100000">>,
                  <<" CSV-INV-100000 ", " ", "CSV-INV-999999">>,
                  <<"CSV-INV-100000", "CSV-INV-100000">>}
LoadedIdArgs == {<<>>, <<"CSV-INV-100000">>}

DefaultCurrency == "AUD"

\* the prefix of the parent's own columns
ParentPrefix(g) ==
    CASE g = "invoice" -> <<"invoice">>
      [] g = "order" -> <<"order">>
      [] g = "purchase_order" -> <<"purchase", "order">>
      [] g = "purchase_invoice" -> <<"purchase", "invoice">>
      [] g = "payment" -> <<"payment">>
      [] g = "purchase_payment" -> <<"purchase", "payment">>

IdColumn(g) == ParentPrefix(g) \o <<"id">>
AccountColumn(g) == ParentPrefix(g) \o <<"account", "id">>

\* the column that holds a system item's identifier
ItemIdColumn(g) ==
    CASE g = "invoice" -> <<"invoice", "line", "item", "id">>
      [] g = "order" -> <<"line", "item", "id">>
      [] g = "purchase_order" -> <<"purchase", "line", "item", "id">>
      [] g = "purchase_invoice" -> <<"purchase", "invoice", "line", "item", "id">>

\* the column that holds a free-text item's name
ItemNameColumn(g) ==
    CASE g = "invoice" -> <<"invoice", "line", "item", "name">>
      [] g = "order" -> <<"line", "item", "name">>
      [] g = "purchase_order" -> <<"purchase", "line", "item", "name">>
      [] g = "purchase_invoice" -> <<"purchase", "invoice", "item", "name">>

\* the prefix collect_custom_attrs and the defaults give parent-level attributes
ParentAttrPrefix(g) ==
    CASE g = "invoice" -> <<"ca", "invoice", "attr">>
      [] g = "order" -> <<"ca", "order", "attr">>
      [] g = "purchase_order" -> <<"ca", "purchase", "order", "attr">>
      [] g = "purchase_invoice" -> <<"ca", "purchase", "invoice", "attr">>

\* the prefix collect_custom_attrs and the defaults give line-level attributes
LineAttrPrefix(g) ==
    CASE g = "invoice" -> <<"ca", "invoice", "item", "attr">>
      [] g = "order" -> <<"ca", "order", "line", "item", "attr">>
      [] g = "purchase_order" -> <<"ca", "purchase", "order", "item", "attr">>
      [] g = "purchase_invoice" -> <<"ca", "purchase", "invoice", "item", "attr">>

\* the keys the continuation-row loop skips by name
MutKeptColumnsIdOnly(g) == {IdColumn(g)}
MutKeptColumnsWithOrigin(g) ==
    {IdColumn(g), AccountColumn(g), ParentPrefix(g) \o <<"origin">>}
KeptColumns(g) ==
    CASE g = "invoice" -> {<<"invoice", "id">>, <<"invoice", "account", "id">>}
      [] g = "order" -> {<<"order", "id">>, <<"order", "account", "id">>}
      [] g = "purchase_order" ->
            {<<"purchase", "order", "id">>, <<"purchase", "order", "account", "id">>,
             <<"purchase", "order", "currency">>, <<"purchase", "order", "issue", "date">>,
             <<"purchase", "order", "due", "date">>,
             <<"purchase", "order", "expected", "completion", "date">>}
      [] g = "purchase_invoice" ->
            {<<"purchase", "invoice", "id">>, <<"purchase", "invoice", "account", "id">>,
             <<"purchase", "invoice", "currency">>,
             <<"purchase", "invoice", "issue", "date">>,
             <<"purchase", "invoice", "due", "date">>}

\* the prefixes the continuation-row loop skips by key.startswith
KeptPrefixes(g) ==
    CASE g = "invoice" ->
            {<<"invoice", "line", "item">>, <<"ca", "invoice", "item", "attr">>}
      [] g = "order" -> {<<"line", "item">>}
      [] g = "purchase_order" ->
            {<<"purchase", "line">>, <<"ca", "purchase", "order", "item", "attr">>}
      [] g = "purchase_invoice" ->
            {<<"purchase", "invoice", "line", "item">>,
             <<"ca", "purchase", "invoice", "item", "attr">>}

Kept(g, key) ==
    \/ key \in KeptColumns(g)
    \/ \E p \in KeptPrefixes(g) : StartsWith(key, p)

\* if item_idx > 0: for key in list(item_row.keys()): ... item_row[key] = ""
blank_continuation(g, item_row) ==
    [key \in DOMAIN item_row |-> IF Kept(g, key) THEN item_row[key] ELSE Blank]

-----------------------------------------------------------------------------
(* The random source.                                                      *)

\* f"CSV-INV-{random.randint(100000, 999999)}" and its three siblings
IdNumbers == {100000, 999999}
IdPrefix(g) ==
    CASE g = "invoice" -> "CSV-INV-"
      [] g = "order" -> "CSV-ORD-"
      [] g = "purchase_order" -> "CSV-PO-"
      [] g = "purchase_invoice" -> "CSV-PINV-"
generate_parent_id(g) == {IdPrefix(g) \o ToString(n) : n \in IdNumbers}

\* the profiles of the random source: no probability gate fires, all fire, or
\* the gates of MixedGates fire
ChanceProfiles(g) == IF g = "order" THEN {"never", "always", "mixed"} ELSE {"never", "always"}
MixedGates == {"billing_start", "consolidate", "consolidate_key", "tax_exempt"}

\* random.random() < p for the gate named `gate`
Fires(c, gate) ==
    CASE c = "never" -> FALSE
      [] c = "always" -> TRUE
      [] OTHER -> gate \in MixedGates

\* random.choice between two representatives of a filler value
Pick(c, a, b) == IF c = "always" THEN a ELSE b

\* [f"ITEM-{random.randint(1000, 9999)}" for _ in range(count)]: the lists
\* whose draws coincide, one per representative number
FallbackCount == 5
FallbackNumbers == {1000}
fallback_system_identifiers ==
    {[i \in 1..FallbackCount |-> "ITEM-" \o ToString(n)] : n \in FallbackNumbers}

-----------------------------------------------------------------------------
(* The parent row of each generator.                                       *)

Origin(i) == PyStr("CSV IMPORT - " \o ToString(i + 1))

\* currency or default_currency
CurrencyOr(currency) == IF currency = "" THEN DefaultCurrency ELSE currency

invoice_row(i, id, account_id, currency, c) ==
    <<"invoice", "id">> :> PyStr(id) @@
    <<"invoice", "origin">> :> Origin(i) @@
    <<"invoice", "currency">> :> PyStr(CurrencyOr(currency)) @@
    <<"invoice", "account", "id">> :> PyStr(account_id) @@
    <<"invoice", "issue", "date">> :> PyStr("2026-10-01") @@
    <<"invoice", "due", "date">> :> PyStr("2026-10-08") @@
    <<"invoice", "price", "tax", "inclusive">> :>
        (IF Fires(c, "price_tax_inclusive") THEN PyStr("TRUE") ELSE Blank) @@
    <<"invoice", "invoice", "note">> :> PyStr("Thank you for choosing our services.") @@
    <<"invoice", "custom", "form", "template">> :> PyStr("Default for Sale Invoice")

order_row(i, id, account_id, currency, c) ==
    LET billing == Fires(c, "billing_start")
        billing_choice == Pick(c, "SUBSCRIPTION_START_DATE", "RATING_START_DATE")
        allow_installment == Fires(c, "installment")
        consolidate == ~allow_installment /\ Fires(c, "consolidate")
        installment_type == Pick(c, "FIXED_TERM", "FIXED_EMI")
        order_name == "Wholesale Bundle 1"
    IN  <<"order", "id">> :> PyStr(id) @@
        <<"order", "name">> :> PyStr(order_name) @@
        <<"order", "display", "name">> :> PyStr(order_name) @@
        <<"order", "description">> :> PyStr("Pilot program enrollment") @@
        <<"order", "origin">> :> Origin(i) @@
        <<"order", "billing", "start", "date">> :>
            (IF billing THEN PyStr(billing_choice) ELSE Blank) @@
        <<"order", "order", "start", "date">> :>
            (IF billing /\ billing_choice = "SUBSCRIPTION_START_DATE"
             THEN PyStr("2026-11-05") ELSE Blank) @@
        <<"order", "consolidate", "invoice">> :>
            (IF consolidate THEN PyStr("TRUE") ELSE Blank) @@
        <<"order", "consolidate", "key">> :>
            (IF consolidate /\ Fires(c, "consolidate_key")
             THEN PyStr("ORDER-CONS-1000") ELSE Blank) @@
        <<"order", "communication", "preference">> :> PyStr("EMAIL") @@
        <<"order", "payment", "mode">> :> PyStr(Pick(c, "AUTOMATIC", "MANUAL")) @@
        <<"order", "payment", "term", "alignment">> :> PyStr("BILLING_DATE") @@
        <<"order", "payment", "term">> :> PyStr("BILLING_DATE") @@
        <<"order", "allow", "installment">> :>
            (IF allow_installment THEN PyStr("TRUE") ELSE Blank) @@
        <<"order", "installment", "type">> :>
            (IF allow_installment THEN PyStr(installment_type) ELSE Blank) @@
        <<"order", "installment", "count">> :>
            (IF allow_installment /\ installment_type = "FIXED_TERM"
             THEN PyStr("2") ELSE Blank) @@
        <<"order", "installment", "amount">> :>
            (IF allow_installment /\ installment_type # "FIXED_TERM"
             THEN PyStr("10.0") ELSE Blank) @@
        <<"order", "installment", "period">> :>
            (IF allow_installment THEN PyStr("1 Day") ELSE Blank) @@
        <<"order", "invoice", "note">> :>
            PyStr("Reference PO provided by customer. (" \o order_name \o ")") @@
        <<"order", "currency">> :> PyStr(CurrencyOr(currency)) @@
        <<"order", "account", "id">> :> PyStr(account_id) @@
        <<"line", "item", "uuid">> :> Blank @@
        <<"line", "item", "id">> :> Blank @@
        <<"line", "item", "accounting", "code">> :> Blank

purchase_order_row(i, id, account_id, currency, c) ==
    <<"purchase", "order", "id">> :> PyStr(id) @@
    <<"purchase", "order", "origin">> :> Origin(i) @@
    <<"purchase", "order", "currency">> :> PyStr(CurrencyOr(currency)) @@
    <<"purchase", "order", "issue", "date">> :> PyStr("2026-10-06") @@
    <<"purchase", "order", "due", "date">> :> PyStr("2026-10-21") @@
    <<"purchase", "order", "expected", "completion", "date">> :> PyStr("2026-10-06") @@
    <<"purchase", "order", "price", "tax", "inclusive">> :> PyStr(Pick(c, "TRUE", "FALSE")) @@
    <<"purchase", "order", "purchase", "order", "note">> :> PyStr("Urgent restock order") @@
    <<"purchase", "order", "account", "id">> :> PyStr(account_id) @@
    <<"purchase", "order", "custom", "form", "template">> :> Blank @@
    <<"purchase", "line", "item", "id">> :> Blank @@
    <<"purchase", "line", "item", "name">> :> Blank @@
    <<"purchase", "line", "item", "quantity">> :> Blank @@
    <<"purchase", "line", "item", "price">> :> Blank @@
    <<"purchase", "line", "item", "discount">> :> Blank @@
    <<"purchase", "line", "purchase", "price", "is", "tax", "inclusive">> :> Blank @@
    <<"purchase", "line", "item", "purchase", "tax", "code">> :> Blank @@
    <<"purchase", "line", "item", "purchase", "tax", "rate">> :> Blank @@
    <<"purchase", "line", "item", "price", "tax", "exempt">> :> Blank @@
    <<"purchase", "line", "item", "accounting", "code">> :> Blank @@
    <<"purchase", "line", "purchase", "line", "note">> :> Blank @@
    <<"purchase", "line", "base", "uom">> :> Blank @@
    <<"purchase", "line", "purchase", "uom">> :> Blank @@
    <<"purchase", "line", "tax", "inclusive", "based", "on">> :> Blank @@
    <<"purchase", "line", "discount", "type">> :> Blank @@
    <<"purchase", "line", "rate", "option">> :> Blank @@
    <<"purchase", "line", "charge", "type">> :> Blank @@
    <<"purchase", "line", "item", "warehouse", "id">> :> Blank

\* pvs: the values drawn for custom_attributes, applied to the parent row itself
purchase_invoice_row(i, id, account_id, currency, c, attrs, pvs) ==
    ApplyAttrs(
        <<"purchase", "invoice", "id">> :> PyStr(id) @@
        <<"purchase", "invoice", "origin">> :> Origin(i) @@
        <<"purchase", "invoice", "currency">> :> PyStr(CurrencyOr(currency)) @@
        <<"purchase", "invoice", "account", "id">> :> PyStr(account_id) @@
        <<"purchase", "invoice", "issue", "date">> :> PyStr("2026-11-05") @@
        <<"purchase", "invoice", "due", "date">> :> PyStr("2026-11-12") @@
        <<"purchase", "invoice", "price", "tax", "inclusive">> :>
            (IF Fires(c, "price_tax_inclusive") THEN PyStr("TRUE") ELSE Blank) @@
        <<"purchase", "invoice", "purchase", "invoice", "note">> :>
            PyStr("All amounts shown in the specified currency.") @@
        <<"purchase", "invoice", "custom", "form", "template">> :>
            PyStr("Default for Purchase Invoice"),
        attrs, pvs)

-----------------------------------------------------------------------------
(* The body of the line item loop of each generator, up to and without the *)
(* continuation-row blanking.  r is row.copy(); lvs and pvs are the values *)
(* drawn for line_item_custom_attributes and custom_attributes.            *)

\* d.update(e)
Update(d, e) == [x \in DOMAIN d \cup DOMAIN e |-> IF x \in DOMAIN e THEN e[x] ELSE d[x]]

invoice_item(r, is_system, identifier, lvs, pvs) ==
    LET kind ==
            IF is_system
            THEN <<"invoice", "line", "item", "id">> :> PyStr(identifier) @@
                 <<"invoice", "line", "item", "name">> :> Blank
            ELSE IF include_line_items
            THEN <<"invoice", "line", "item", "id">> :> Blank @@
                 <<"invoice", "line", "item", "name">> :> PyStr("Premium Service")
            ELSE <<>>
        has_tax == Len(tax_config.tax_codes) > 0
        tax_code == IF has_tax THEN tax_config.tax_codes[1] ELSE ""
        fields ==
            <<"invoice", "line", "item", "quantity">> :> PyInt(1) @@
            <<"invoice", "line", "item", "price">> :> PyFloat(1000) @@
            <<"invoice", "line", "item", "invoice", "note">> :> PyStr("Standard terms apply.") @@
            <<"invoice", "line", "item", "accounting", "code">> :> PyStr("Sales Revenue") @@
            <<"invoice", "line", "item", "flat", "discount">> :>
                (IF Fires(chance, "discount") THEN PyFloat(500) ELSE Blank) @@
            <<"invoice", "line", "item", "tax", "code">> :>
                (IF has_tax THEN PyStr(tax_code) ELSE Blank) @@
            <<"invoice", "line", "item", "tax", "rate">> :>
                (IF has_tax /\ tax_code \in DOMAIN tax_config.tax_rates
                 THEN tax_config.tax_rates[tax_code] ELSE Blank) @@
            <<"invoice", "line", "item", "tax", "exempt">> :>
                (IF Fires(chance, "tax_exempt") THEN PyStr("TRUE") ELSE Blank) @@
            <<"invoice", "line", "item", "tax", "inclusive", "based", "on">> :>
                (IF Fires(chance, "tax_inclusive_based_on") THEN PyStr("TRUE") ELSE Blank)
    IN  ApplyAttrs(
            ApplyAttrs(Update(Update(r, kind), fields), line_item_custom_attributes, lvs),
            custom_attributes, pvs)

\* the line-level attributes are applied in the free-text branch only: lvs is
\* <<>> for a system item
order_item(r, is_system, identifier, lvs, pvs) ==
    LET reset ==
            <<"line", "item", "uuid">> :> Blank @@
            <<"line", "item", "id">> :> Blank @@
            <<"line", "item", "accounting", "code">> :> Blank
        discount == Fires(chance, "discount")
        discount_type == Pick(chance, "PERCENTAGE", "FIXED")
        kind ==
            IF is_system
            THEN <<"line", "item", "uuid">> :> PyStr(identifier) @@
                 <<"line", "item", "id">> :> PyStr(identifier)
            ELSE IF include_line_items
            THEN <<"line", "item", "name">> :> PyStr("Premium Subscription") @@
                 <<"line", "item", "order", "quantity">> :> PyInt(1) @@
                 <<"line", "item", "invoice", "note">> :> PyStr("Apply standard billing terms.") @@
                 <<"line", "item", "description">> :> PyStr("Ten words of filler text.") @@
                 <<"line", "item", "price", "snapshot", "price">> :> PyFloat(1000) @@
                 <<"line", "item", "accounting", "code">> :> PyStr("Sales Revenue") @@
                 <<"line", "item", "discount", "type">> :>
                     (IF discount THEN PyStr(discount_type) ELSE Blank) @@
                 <<"line", "item", "discount">> :>
                     (IF ~discount THEN Blank
                      ELSE IF discount_type = "FIXED" THEN PyFloat(500) ELSE PyInt(1)) @@
                 <<"line", "item", "tax", "exempt">> :>
                     (IF Fires(chance, "tax_exempt") THEN PyStr("TRUE") ELSE Blank)
            ELSE <<>>
        applied == IF ~is_system /\ include_line_items
                   THEN line_item_custom_attributes ELSE <<>>
    IN  ApplyAttrs(ApplyAttrs(Update(Update(r, reset), kind), applied, lvs),
                   custom_attributes, pvs)

purchase_order_item(r, is_system, identifier, lvs, pvs) ==
    LET reset ==
            <<"purchase", "line", "item", "id">> :> Blank @@
            <<"purchase", "line", "item", "name">> :> Blank @@
            <<"purchase", "line", "item", "accounting", "code">> :> Blank
        use_warehouse == warehouse_config.use_warehouse /\ Len(warehouse_config.warehouses) > 0
        kind ==
            IF is_system
            THEN <<"purchase", "line", "item", "id">> :> PyStr(identifier)
            ELSE IF include_line_items
            THEN <<"purchase", "line", "item", "name">> :> PyStr("Bulk Material") @@
                 <<"purchase", "line", "item", "quantity">> :> PyInt(1) @@
                 <<"purchase", "line", "item", "price">> :> PyFloat(1000) @@
                 <<"purchase", "line", "item", "accounting", "code">> :> PyStr("Inventory") @@
                 <<"purchase", "line", "purchase", "line", "note">> :> PyStr("Handle with care") @@
                 <<"purchase", "line", "item", "discount">> :>
                     (IF Fires(chance, "discount") THEN PyFloat(500) ELSE Blank) @@
                 <<"purchase", "line", "purchase", "price", "is", "tax", "inclusive">> :>
                     PyStr(Pick(chance, "TRUE", "FALSE")) @@
                 <<"purchase", "line", "item", "purchase", "tax", "code">> :> PyStr("GST") @@
                 <<"purchase", "line", "item", "purchase", "tax", "rate">> :> PyFloat(500) @@
                 <<"purchase", "line", "item", "price", "tax", "exempt">> :>
                     (IF Fires(chance, "tax_exempt") THEN PyStr("TRUE") ELSE Blank) @@
                 <<"purchase", "line", "base", "uom">> :> PyStr("EA") @@
                 <<"purchase", "line", "purchase", "uom">> :> PyStr("EA") @@
                 <<"purchase", "line", "tax", "inclusive", "based", "on">> :>
                     PyStr(Pick(chance, "PRICE", "")) @@
                 <<"purchase", "line", "discount", "type">> :> PyStr("FIXED") @@
                 <<"purchase", "line", "rate", "option">> :> PyStr("FIXED") @@
                 <<"purchase", "line", "charge", "type">> :> PyStr("FIXED") @@
                 <<"purchase", "line", "item", "warehouse", "id">> :>
                     (IF use_warehouse THEN PyStr(warehouse_config.warehouses[1]) ELSE Blank)
            ELSE <<>>
        applied == IF ~is_system /\ include_line_items
                   THEN line_item_custom_attributes ELSE <<>>
    IN  ApplyAttrs(ApplyAttrs(Update(Update(r, reset), kind), applied, lvs),
                   custom_attributes, pvs)

\* the parent-level attributes are already in r: pvs is <<>>
purchase_invoice_item(r, is_system, identifier, lvs, pvs) ==
    LET kind ==
            IF is_system
            THEN <<"purchase", "invoice", "line", "item", "id">> :> PyStr(identifier) @@
                 <<"purchase", "invoice", "item", "name">> :> Blank
            ELSE IF include_line_items
            THEN <<"purchase", "invoice", "line", "item", "id">> :> Blank @@
                 <<"purchase", "invoice", "item", "name">> :> PyStr("Bulk Materials")
            ELSE <<>>
        has_tax == Len(tax_config.tax_uuids) > 0 /\ Fires(chance, "tax_uuid")
        fields ==
            <<"purchase", "invoice", "line", "item", "order", "quantity">> :> PyInt(1) @@
            <<"purchase", "invoice", "line", "item", "price">> :> PyFloat(1000) @@
            <<"purchase", "invoice", "line", "item", "tax", "uuid">> :>
                (IF has_tax THEN PyStr(tax_config.tax_uuids[1]) ELSE Blank) @@
            <<"purchase", "invoice", "line", "item", "tax", "exempt">> :>
                (IF Fires(chance, "tax_exempt") THEN PyStr("TRUE") ELSE Blank)
    IN  ApplyAttrs(Update(Update(r, kind), fields), line_item_custom_attributes, lvs)

\* the line item loop body of generator g, continuation-row blanking included
item_row(g, r, i, is_system, identifier, lvs, pvs) ==
    LET full == CASE g = "invoice" -> invoice_item(r, is_system, identifier, lvs, pvs)
                  [] g = "order" -> order_item(r, is_system, identifier, lvs, pvs)
                  [] g = "purchase_order" ->
                        purchase_order_item(r, is_system, identifier, lvs, pvs)
                  [] g = "purchase_invoice" ->
                        purchase_invoice_item(r, is_system, identifier, lvs, pvs)
    IN  IF i > 0 THEN blank_continuation(g, full) ELSE full

\* the line-level attributes the loop body of g applies to an item of this kind
LineAttrsApplied(g, is_system) ==
    IF g \in {"order", "purchase_order"} /\ (is_system \/ ~include_line_items)
    THEN <<>> ELSE line_item_custom_attributes

\* the parent-level attributes the loop body of g applies (purchase invoice
\* applies them to the parent row, before the loop)
ParentAttrsApplied(g) == IF g = "purchase_invoice" THEN <<>> ELSE custom_attributes

-----------------------------------------------------------------------------
(* Arguments and their defaults.                                           *)

\* the account_ids branch of _derive_account_choices
RECURSIVE ChoicesFromIds(_)
ChoicesFromIds(ids) ==
    IF Len(ids) = 0 THEN <<>>
    ELSE (IF Strip(Head(ids)) # "" THEN <<<<Strip(Head(ids)), DefaultCurrency>>>> ELSE <<>>)
         \o ChoicesFromIds(Tail(ids))

\* the account_rows branch, had it paired every account with the default currency
RECURSIVE MutChoicesIgnoreCurrency(_)
MutChoicesIgnoreCurrency(arows) ==
    IF Len(arows) = 0 THEN <<>>
    ELSE (IF Truthy(Head(arows).account_id)
          THEN <<<<Head(arows).account_id.s, DefaultCurrency>>>>
          ELSE <<>>)
         \o MutChoicesIgnoreCurrency(Tail(arows))

\* the account_rows branch of _derive_account_choices (order, purchase order)
RECURSIVE ChoicesFromRows(_)
ChoicesFromRows(arows) ==
    IF Len(arows) = 0 THEN <<>>
    ELSE (IF Truthy(Head(arows).account_id)
          THEN <<<<Head(arows).account_id.s,
                   OrElse(Head(arows).account_currency, PyStr(DefaultCurrency)).s>>>>
          ELSE <<>>)
         \o ChoicesFromRows(Tail(arows))

derive_account_choices(g, arows, ids) ==
    IF g \in {"order", "purchase_order"} /\ Len(arows) > 0 THEN ChoicesFromRows(arows)
    ELSE IF Len(ids) > 0 THEN ChoicesFromIds(ids)
    ELSE <<>>

\* item_config: `given` is FALSE for the argument None; a key the dict lacks
\* holds PyNone.  min_items / max_items stand for min_items_per_invoice,
\* min_items_per_order, ... of the generator called.
ItemConfig(given, sys, line, ids, lo, hi) ==
    [given |-> given, include_system_items |-> sys, include_line_items |-> line,
     system_identifiers |-> ids, min_items |-> lo, max_items |-> hi]

DefaultMaxItems == 5
default_item_config ==
    ItemConfig(TRUE, PyBool(TRUE), PyBool(TRUE), <<>>, PyInt(1), PyInt(DefaultMaxItems))

\* if item_config is None: item_config = default_item_config()
EffectiveItemConfig(cfg) == IF cfg.given THEN cfg ELSE default_item_config

\* bool(item_config.get("include_system_items", True))
IncludeSystem(cfg) == Truthy(GetOr(cfg.include_system_items, PyBool(TRUE)))

\* bool(item_config.get("include_line_items", True)), forced on when both are off
MutIncludeLineItemsNotForced(cfg) == Truthy(GetOr(cfg.include_line_items, PyBool(TRUE)))
IncludeLineItems(cfg) ==
    LET line == Truthy(GetOr(cfg.include_line_items, PyBool(TRUE)))
    IN  IF ~IncludeSystem(cfg) /\ ~line THEN TRUE ELSE line

\* max(1, int(item_config.get("min_items_per_...", 1)))
MutMinItemsUnclamped(cfg) == GetOr(cfg.min_items, PyInt(1)).n
MinItems(cfg) == Max2(1, GetOr(cfg.min_items, PyInt(1)).n)

\* a missing maximum read as the maximum of default_item_config
MutMaxItemsDefaultsToFive(cfg) ==
    Max2(MinItems(cfg), GetOr(cfg.max_items, PyInt(DefaultMaxItems)).n)
\* max(min_items, int(item_config.get("max_items_per_...", min_items)))
MaxItemsOf(cfg) == Max2(MinItems(cfg), GetOr(cfg.max_items, PyInt(MinItems(cfg))).n)

EmptyTaxConfig == [tax_codes |-> <<>>, tax_rates |-> <<>>, tax_uuids |-> <<>>]
NoWarehouseConfig == [use_warehouse |-> FALSE, warehouses |-> <<>>]

-----------------------------------------------------------------------------
(* The row generators as a state machine.                                  *)

\* the state before the call, for arguments drawn from the given sets
InitRows(gens, id_args, counts, configs, parent_attrs, line_attrs) ==
    /\ gen \in gens
    /\ account_rows = <<>>
    /\ account_ids \in id_args
    /\ count \in counts
    /\ item_config \in configs
    /\ custom_attributes \in parent_attrs[gen]
    /\ line_item_custom_attributes \in line_attrs[gen]
    /\ tax_config = EmptyTaxConfig
    /\ warehouse_config = NoWarehouseConfig
    /\ chance = "never"
    /\ pc = "call"
    /\ include_system = FALSE
    /\ include_line_items = FALSE
    /\ system_identifiers = <<>>
    /\ account_choices = <<>>
    /\ idx = 0
    /\ item_idx = 0
    /\ total_items = 0
    /\ row = <<>>
    /\ rows = <<>>
    /\ meta = <<>>
    /\ used_account_ids = {}
    /\ used_account_names = {}
    /\ unique_account_id = ""
    /\ files = <<>>
    /\ invoice_ids \in (IF gen \in PaymentGenerators THEN InvoiceIdArgs ELSE {<<>>})
    /\ loaded_ids \in (IF gen \in PaymentGenerators THEN LoadedIdArgs ELSE {<<>>})
    /\ multi_invoice_enabled \in (IF gen \in PaymentGenerators THEN BOOLEAN ELSE {FALSE})
    /\ invoice_choices = <<>>
    /\ selected_invoices = <<>>

\* no script runs and no prompt function is called: a row generator is called
\* directly
NoScript ==
    /\ pm = [pos |-> "idle"]
    /\ script = "none"
    /\ opts = <<>>
    /\ config = <<>>
    /\ spc = "idle"
    /\ inputs_read = 0
    /\ late_inputs = 0
    /\ batch_i = 0
    /\ n_rows = 0
    /\ written = <<>>
    /\ output = {}
    /\ exit_status = -1
    /\ config_file = NoFile
    /\ loaded_config = PyNone

InitWith(gens, id_args, counts, configs, parent_attrs, line_attrs) ==
    InitRows(gens, id_args, counts, configs, parent_attrs, line_attrs) /\ NoScript

\* raise ValueError("No account IDs available ...")
RaiseNoAccounts ==
    /\ gen \in Generators
    /\ pc = "call"
    /\ derive_account_choices(gen, account_rows, account_ids) = <<>>
    /\ pc' = "raised"
    /\ UNCHANGED <<args, locals, idx, item_idx, total_items, row, rows, chance, meta, others>>

\* the function body up to the outer loop
\* Enter, had it stored the forced flag in the caller's item_config
MutEnterStoresForcedFlag ==
    /\ gen \in Generators
    /\ pc = "call"
    /\ derive_account_choices(gen, account_rows, account_ids) # <<>>
    /\ LET cfg == EffectiveItemConfig(item_config)
           ids == cfg.system_identifiers
       IN  /\ account_choices' = derive_account_choices(gen, account_rows, account_ids)
           /\ include_system' = IncludeSystem(cfg)
           /\ include_line_items' = IncludeLineItems(cfg)
           /\ system_identifiers' \in
                 (IF IncludeSystem(cfg) /\ Len(ids) = 0
                  THEN fallback_system_identifiers ELSE {ids})
           /\ item_config' =
                 IF item_config.given /\ ~IncludeSystem(cfg)
                 THEN [item_config EXCEPT !.include_line_items = PyBool(TRUE)]
                 ELSE item_config
    /\ pc' = "loop"
    /\ UNCHANGED <<gen, account_rows, account_ids, count, custom_attributes,
                   line_item_custom_attributes, tax_config, warehouse_config,
                   idx, item_idx, total_items, row, rows, chance, meta, others>>
Enter ==
    /\ gen \in Generators
    /\ pc = "call"
    /\ derive_account_choices(gen, account_rows, account_ids) # <<>>
    /\ LET cfg == EffectiveItemConfig(item_config)
           ids == cfg.system_identifiers
       IN  /\ account_choices' = derive_account_choices(gen, account_rows, account_ids)
           /\ include_system' = IncludeSystem(cfg)
           /\ include_line_items' = IncludeLineItems(cfg)
           /\ system_identifiers' \in
                 (IF IncludeSystem(cfg) /\ Len(ids) = 0
                  THEN fallback_system_identifiers ELSE {ids})
    /\ pc' = "loop"
    /\ UNCHANGED <<args, idx, item_idx, total_items, row, rows, chance, meta, others>>

\* one pass of the outer loop up to the inner loop: the parent row and total_items
\* (the settings are read again on every pass and give the same numbers)
BeginParent ==
    /\ gen \in Generators
    /\ pc = "loop"
    /\ idx < count
    /\ LET cfg == EffectiveItemConfig(item_config)
       IN  \E id \in generate_parent_id(gen), n \in 1..Len(account_choices),
              c \in ChanceProfiles(gen),
              total \in MinItems(cfg)..MaxItemsOf(cfg),
              pvs \in (IF gen = "purchase_invoice" THEN AttrDraws(custom_attributes)
                       ELSE {<<>>}) :
              LET account_id == account_choices[n][1]
                  currency == account_choices[n][2]
              IN  /\ row' = CASE gen = "invoice" ->
                                    invoice_row(idx, id, account_id, currency, c)
                              [] gen = "order" ->
                                    order_row(idx, id, account_id, currency, c)
                              [] gen = "purchase_order" ->
                                    purchase_order_row(idx, id, account_id, currency, c)
                              [] gen = "purchase_invoice" ->
                                    purchase_invoice_row(idx, id, account_id, currency,
                                                         c, custom_attributes, pvs)
                  /\ total_items' = total
                  /\ chance' = c
                  \* for item_idx in range(total_items): no pass when it is 0
                  /\ IF total > 0
                     THEN pc' = "item" /\ idx' = idx
                     ELSE pc' = "loop" /\ idx' = idx + 1
    /\ item_idx' = 0
    /\ UNCHANGED <<args, locals, rows, meta, others>>

\* is_system_item: a coin when both kinds are enabled, else forced
MutCoinAlways == BOOLEAN
CoinOutcomes ==
    IF include_system /\ include_line_items THEN BOOLEAN
    ELSE IF include_system THEN {TRUE}
    ELSE {FALSE}

\* random.choice(system_identifiers); not evaluated for a free-text item
IdentifierDraws(is_system) == IF is_system THEN Range(system_identifiers) ELSE {""}

\* one pass of the inner loop: rows.append(item_row)
AddItem ==
    /\ gen \in Generators
    /\ pc = "item"
    /\ \E is_system \in CoinOutcomes :
         \E identifier \in IdentifierDraws(is_system),
            lvs \in AttrDraws(LineAttrsApplied(gen, is_system)),
            pvs \in AttrDraws(ParentAttrsApplied(gen)) :
            /\ rows' = Append(rows,
                              item_row(gen, row, item_idx, is_system, identifier, lvs, pvs))
            /\ meta' = Append(meta, [parent |-> idx, item |-> item_idx,
                                     is_system |-> is_system, line_values |-> lvs,
                                     parent_values |-> pvs])
    /\ IF item_idx + 1 < total_items
       THEN /\ item_idx' = item_idx + 1
            /\ pc' = "item"
            /\ idx' = idx
       ELSE /\ item_idx' = item_idx
            /\ pc' = "loop"
            /\ idx' = idx + 1
    /\ UNCHANGED <<args, locals, total_items, row, chance, others>>

\* return rows
Return ==
    /\ gen \in Generators \cup PaymentGenerators
    /\ pc = "loop"
    /\ idx = count
    /\ pc' = "returned"
    /\ UNCHANGED <<args, locals, idx, item_idx, total_items, row, rows, chance, meta, others>>

Next == RaiseNoAccounts \/ Enter \/ BeginParent \/ AddItem \/ Return

-----------------------------------------------------------------------------
(* Specification Spec: the four generators on item configurations that set *)
(* every key, with one text attribute of each level.                       *)

TextAttr(col) == Attr(col, "text", FALSE, PyNone, <<>>, PyNone, PyNone)

AccountIdArgs == {<<>>, <<" ">>, <<" ", " CSV-ACC-10000-CUS ">>}
Flags == {PyBool(TRUE), PyBool(FALSE)}
IdentifierArgs == {<<>>, <<"ITEM1">>}

SpecItemConfigs ==
    {ItemConfig(TRUE, sys, line, ids, PyInt(lo), PyInt(hi)) :
        sys \in Flags, line \in Flags, ids \in IdentifierArgs,
        lo \in 1..MaxItems, hi \in 1..MaxItems}
SpecParentAttrs(g) == {<<TextAttr(ParentAttrPrefix(g) \o <<"NOTE">>)>>}
SpecLineAttrs(g) == {<<TextAttr(LineAttrPrefix(g) \o <<"NOTE">>)>>}

Init ==
    InitWith(Generators, AccountIdArgs, 0..MaxCount, SpecItemConfigs,
             [g \in Generators |-> SpecParentAttrs(g)],
             [g \in Generators |-> SpecLineAttrs(g)])

Spec == Init /\ [][Next]_vars

-----------------------------------------------------------------------------
(* Specification SpecBatch: batches of MaxCount + 1 parents, so that two    *)
(* parents of one batch meet.                                              *)

BatchItemConfigs ==
    {ItemConfig(TRUE, sys, line, <<"ITEM1">>, PyInt(lo), PyInt(hi)) :
        sys \in Flags, line \in Flags, lo \in 1..MaxItems, hi \in 1..MaxItems}

InitBatch ==
    InitWith(Generators, AccountIdArgs, {MaxCount + 1}, BatchItemConfigs,
             [g \in Generators |-> SpecParentAttrs(g)],
             [g \in Generators |-> SpecLineAttrs(g)])

SpecBatch == InitBatch /\ [][Next]_vars

-----------------------------------------------------------------------------
(* Specification SpecRange: every pair of min/max settings from -1 up,     *)
(* inverted pairs included.                                                *)

RangeItemConfigs ==
    {ItemConfig(TRUE, sys, line, <<"ITEM1">>, PyInt(lo), PyInt(hi)) :
        sys \in Flags, line \in Flags, lo \in (-1)..MaxItems, hi \in (-1)..MaxItems}

InitRange ==
    InitWith(Generators, AccountIdArgs, 0..MaxCount, RangeItemConfigs,
             [g \in Generators |-> SpecParentAttrs(g)],
             [g \in Generators |-> SpecLineAttrs(g)])

SpecRange == InitRange /\ [][Next]_vars

-----------------------------------------------------------------------------
(* Specification SpecAttrs: one parent with one free-text item and one     *)
(* custom attribute, of every type, constant or not.                       *)

QuantityBounds == {PyNone, PyInt(-1), PyInt(0), PyInt(1), PyInt(2)}
OptionArgs == {<<>>, <<"A", "B">>}
ConstantValues == {PyNone, PyInt(7), PyStr("FIXED")}

AttrChoices(col) ==
    {Attr(col, "quantity", FALSE, PyNone, <<>>, qmin, qmax) :
        qmin \in QuantityBounds, qmax \in QuantityBounds}
    \cup {Attr(col, "quantity", FALSE, PyNone, <<>>, PyInt(5), PyInt(10))}
    \cup {Attr(col, type, FALSE, PyNone, options, PyNone, PyNone) :
            type \in {"dropdown", "radio", "dropdown_multi", "checkboxes"},
            options \in OptionArgs}
    \cup {Attr(col, type, constant, IF constant THEN value ELSE PyNone, <<>>, PyNone, PyNone) :
            type \in {"bool", "number", "string", "text", "date", "money", "colour"},
            constant \in BOOLEAN, value \in ConstantValues}

AttrsItemConfigs == {ItemConfig(TRUE, PyBool(FALSE), PyBool(TRUE), <<>>, PyInt(1), PyInt(1))}
AttrsParentAttrs(g) ==
    {<<>>} \cup {<<a>> : a \in AttrChoices(ParentAttrPrefix(g) \o <<"X">>)}
AttrsLineAttrs(g) ==
    {<<>>} \cup {<<a>> : a \in AttrChoices(LineAttrPrefix(g) \o <<"X">>)}

InitAttrs ==
    /\ InitWith(Generators, AccountIdArgs, {0, 1}, AttrsItemConfigs,
                [g \in Generators |-> AttrsParentAttrs(g)],
                [g \in Generators |-> AttrsLineAttrs(g)])
    /\ Len(custom_attributes) + Len(line_item_custom_attributes) <= 1

SpecAttrs == InitAttrs /\ [][Next]_vars

-----------------------------------------------------------------------------
(* Reading the returned rows.                                              *)

\* the cell of a row as the CSV shows it: a key the dict lacks is an empty cell
Cell(r, k) == IF k \in DOMAIN r THEN r[k] ELSE Blank

Positions == 1..Len(rows)

\* the positions in rows of the rows of parent p
RowsOf(p) == {i \in Positions : meta[i].parent = p}

\* the parents whose line item loop has ended
FinishedParents == 0..(idx - 1)

\* the position of the first row of parent p
FirstRowOf(p) == CHOOSE i \in RowsOf(p) : meta[i].item = 0

\* line-item columns: the item columns, the free-text item name and the
\* line-level custom attributes
LineColumnPrefix(g) ==
    IF g = "purchase_order" THEN <<"purchase", "line">>
    ELSE SubSeq(ItemIdColumn(g), 1, Len(ItemIdColumn(g)) - 1)
IsLineColumn(g, k) ==
    \/ StartsWith(k, LineColumnPrefix(g))
    \/ k = ItemNameColumn(g)
    \/ StartsWith(k, LineAttrPrefix(g))

IdentifierColumns(g) == {IdColumn(g), AccountColumn(g)}

\* the columns in which row i holds a non-blank value
Populated(i) == {k \in DOMAIN rows[i] : rows[i][k] # Blank}

\* the parent-level columns of row i (every row of a parent has them all),
\* the identifier columns and the columns of `apart` apart
ParentLevelColumns(g, i, apart) ==
    {k \in DOMAIN rows[i] :
        k \notin IdentifierColumns(g) /\ k \notin apart /\ ~IsLineColumn(g, k)}

\* the columns the purchase generators repeat on every row as mandatory
MandatoryColumns(g) ==
    CASE g = "purchase_order" ->
            {ParentPrefix(g) \o <<"currency">>, ParentPrefix(g) \o <<"issue", "date">>,
             ParentPrefix(g) \o <<"due", "date">>,
             ParentPrefix(g) \o <<"expected", "completion", "date">>}
      [] g = "purchase_invoice" ->
            {ParentPrefix(g) \o <<"currency">>, ParentPrefix(g) \o <<"issue", "date">>,
             ParentPrefix(g) \o <<"due", "date">>}
      [] OTHER -> {}

SystemOff == item_config.include_system_items = PyBool(FALSE)
LineItemsOff == item_config.include_line_items = PyBool(FALSE)

-----------------------------------------------------------------------------
(* C1: row count and grouping under equal bounds.                          *)

\* C1: generate_invoice_rows called with min_items_per_invoice =
\* max_items_per_invoice = k (k >= 1) and invoice_count = n returns exactly
\* n*k rows, grouped into n distinct invoice_id values that each appear on
\* exactly k rows.
C1_EqualBoundsGiveDistinctGroups ==
    (/\ pc = "returned"
     /\ gen = "invoice"
     /\ item_config.min_items = item_config.max_items
     /\ item_config.min_items.n >= 1)
    => LET k == item_config.min_items.n
           ids == {rows[i][IdColumn(gen)] : i \in Positions}
       IN  /\ Len(rows) = count * k
           /\ Cardinality(ids) = count
           /\ \A id \in ids :
                 Cardinality({i \in Positions : rows[i][IdColumn(gen)] = id}) = k

-----------------------------------------------------------------------------
(* C2, C3: what the continuation rows of a parent keep.                    *)

\* C2 as stated: for every parent that has two or more rows and every
\* parent-level column outside the identifier and line-item columns, exactly
\* one row of that parent holds a non-blank value in that column.
C2_ParentFieldsOnExactlyOneRow ==
    \A p \in FinishedParents :
        Cardinality(RowsOf(p)) >= 2 =>
            \A k \in ParentLevelColumns(gen, FirstRowOf(p), {}) :
                Cardinality({i \in RowsOf(p) : Cell(rows[i], k) # Blank}) = 1

\* C2 amended: for every parent that has two or more rows and every
\* parent-level column outside the identifier columns, the line-item columns
\* and the mandatory columns of the purchase generators, no row but the first
\* row of the parent holds a non-blank value in that column, so that at most
\* one row does.
C2_ParentFieldsOnFirstRowAtMost ==
    \A p \in FinishedParents :
        LET group == RowsOf(p)
            first == FirstRowOf(p)
        IN  Cardinality(group) >= 2 =>
                \A k \in ParentLevelColumns(gen, first, MandatoryColumns(gen)) :
                    \A i \in group \ {first} : Cell(rows[i], k) = Blank

\* a finished parent of two rows whose origin is on its first row only
C2_Witness ==
    \E p \in FinishedParents :
        /\ Cardinality(RowsOf(p)) >= 2
        /\ {i \in RowsOf(p) : Cell(rows[i], ParentPrefix(gen) \o <<"origin">>) # Blank}
              = {FirstRowOf(p)}

\* C3 as stated: on every continuation row the only non-line-item columns
\* that keep a value are the parent ID and the parent's account ID, which do
\* keep the value of the first row; every other parent-level column is the
\* empty string.
C3_ContinuationKeepsIdentifiersOnly ==
    \A i \in Positions :
        meta[i].item > 0 =>
            LET first == rows[i - meta[i].item]
            IN  /\ \A k \in Populated(i) \ IdentifierColumns(gen) : IsLineColumn(gen, k)
                /\ \A k \in IdentifierColumns(gen) :
                      rows[i][k] = first[k] /\ rows[i][k] # Blank

\* C3 amended: on every continuation row the only non-line-item columns that
\* keep a value are the parent ID, the parent's account ID and, in the two
\* purchase generators, the mandatory currency and date columns; these keep
\* the value of the first row, and every other parent-level column,
\* parent-level custom attributes included, is the empty string.
C3_ContinuationKeepsIdentifiersAndMandatory ==
    \A i \in Positions :
        meta[i].item > 0 =>
            LET first == rows[i - meta[i].item]
                kept == IdentifierColumns(gen) \cup MandatoryColumns(gen)
            IN  /\ \A k \in Populated(i) \ kept : IsLineColumn(gen, k)
                /\ \A k \in kept : rows[i][k] = first[k]
                /\ \A k \in IdentifierColumns(gen) : rows[i][k] # Blank
                /\ \A a \in Range(custom_attributes) : rows[i][a.column_name] = Blank

\* a continuation row of a purchase order that repeats the currency while the
\* parent-level custom attribute of its first row is blanked
C3_Witness ==
    \E i \in Positions :
        /\ meta[i].item > 0
        /\ gen = "purchase_order"
        /\ rows[i][<<"purchase", "order", "currency">>] = PyStr(DefaultCurrency)
        /\ \E a \in Range(custom_attributes) :
              rows[i - meta[i].item][a.column_name] # Blank

-----------------------------------------------------------------------------
(* C4, C5: the line item of a continuation row.                            *)

\* C4: a line-level custom attribute value generated for a line item is still
\* present in the returned row when that item is a continuation row: the
\* continuation-row blanking never erases line-level custom attribute columns.
C4_LineAttributesSurviveBlanking ==
    \A i \in Positions :
        meta[i].item > 0 =>
            LET attrs == LineAttrsApplied(gen, meta[i].is_system)
            IN  \A j \in 1..Len(attrs) :
                    Cell(rows[i], attrs[j].column_name) = meta[i].line_values[j]

\* C5: every returned row, first row or continuation row, is exactly one of a
\* system-item row (non-empty system identifier, empty free-text item name)
\* or a free-text row (empty system identifier, non-empty item name); no
\* returned row has both the identifier and the name empty.
C5_RowIsSystemOrFreeText ==
    \A i \in Positions :
        LET identifier == Cell(rows[i], ItemIdColumn(gen))
            name == Cell(rows[i], ItemNameColumn(gen))
        IN  \/ identifier # Blank /\ name = Blank
            \/ identifier = Blank /\ name # Blank

-----------------------------------------------------------------------------
(* C6, C7, C8: the item settings.                                          *)

\* C6: when item_config has include_system_items = false and
\* include_line_items = false, the generators behave as if include_line_items
\* were true: the flag is forced on, every parent still receives at least one
\* row, and every row is a free-text line item, without a system identifier
\* and drawn with a free-text name.
C6_BothFlagsOffForcesLineItems ==
    (SystemOff /\ LineItemsOff /\ pc \notin {"call", "raised"}) =>
        /\ include_line_items /\ ~include_system
        /\ \A p \in FinishedParents : RowsOf(p) # {}
        /\ \A i \in Positions :
              /\ ~meta[i].is_system
              /\ Cell(rows[i], ItemIdColumn(gen)) = Blank
              /\ meta[i].item = 0 => Cell(rows[i], ItemNameColumn(gen)) # Blank

\* a returned batch of two free-text rows under both flags off
C6_Witness ==
    /\ SystemOff /\ LineItemsOff
    /\ pc = "returned"
    /\ Len(rows) >= 2

\* C7: for every pair of integers (min, max) in item_config, zero, negative
\* and inverted pairs included, the number of rows of each parent lies in
\* [m, M] where m = max(1, min) and M = max(m, max); no parent gets zero rows.
C7_RowsPerParentWithinClampedRange ==
    \A p \in FinishedParents :
        LET m == Max2(1, item_config.min_items.n)
            M == Max2(m, item_config.max_items.n)
            n == Cardinality(RowsOf(p))
        IN  m <= n /\ n <= M /\ n > 0

\* a returned batch under a non-positive minimum and a maximum below it
C7_Witness ==
    /\ pc = "returned"
    /\ item_config.min_items.n < 1
    /\ item_config.max_items.n < item_config.min_items.n
    /\ count > 0
    /\ \A p \in 0..(count - 1) : Cardinality(RowsOf(p)) = 1

\* C8: when exactly one of the two flags is enabled the item kind is forced:
\* with only system items every returned row carries a system identifier that
\* is a member of the configured pool, or of the 5-element fallback pool when
\* the configured pool is empty; with only line items no returned row carries
\* a system identifier.
C8_SingleKindIsForced ==
    /\ (~SystemOff /\ LineItemsOff /\ pc \notin {"call", "raised"}) =>
          /\ item_config.system_identifiers # <<>> =>
                system_identifiers = item_config.system_identifiers
          /\ item_config.system_identifiers = <<>> =>
                system_identifiers \in fallback_system_identifiers
                    /\ Len(system_identifiers) = 5
          /\ \A i \in Positions :
                /\ Cell(rows[i], ItemIdColumn(gen)).t = "str"
                /\ Cell(rows[i], ItemIdColumn(gen)).s \in Range(system_identifiers)
    /\ (SystemOff /\ ~LineItemsOff) =>
          \A i \in Positions : Cell(rows[i], ItemIdColumn(gen)) = Blank

\* a returned batch of two system rows drawn from the fallback pool
C8_Witness ==
    /\ ~SystemOff /\ LineItemsOff
    /\ item_config.system_identifiers = <<>>
    /\ pc = "returned"
    /\ Len(rows) >= 2
    /\ \A i \in Positions : rows[i][ItemIdColumn(gen)].s \in Range(system_identifiers)

-----------------------------------------------------------------------------
(* C9, C10: custom attribute values.                                       *)

AllAttributes == Range(custom_attributes) \cup Range(line_item_custom_attributes)

\* C9: a custom attribute whose spec has constant set yields its configured
\* fixed value on every row where the attribute is populated, never a
\* randomly drawn value.
C9_ConstantAttributeIsFixed ==
    \A i \in Positions :
        \A a \in AllAttributes :
            (a.constant /\ a.value # PyNone /\ Cell(rows[i], a.column_name) # Blank)
                => rows[i][a.column_name] = a.value

\* C10: for a quantity-type custom attribute with any integer quantity_min
\* and quantity_max (0, negative values and an inverted pair included), every
\* generated value v satisfies
\* min(quantity_min, quantity_max) <= v <= max(quantity_min, quantity_max).
C10_QuantityWithinConfiguredRange ==
    \A i \in Positions :
        \A a \in AllAttributes :
            (/\ a.type = "quantity"
             /\ a.quantity_min.t = "int" /\ a.quantity_max.t = "int"
             /\ a.column_name \in DOMAIN rows[i])
            => LET v == rows[i][a.column_name]
               IN  /\ v.t = "int"
                   /\ Min2(a.quantity_min.n, a.quantity_max.n) <= v.n
                   /\ v.n <= Max2(a.quantity_min.n, a.quantity_max.n)

-----------------------------------------------------------------------------
(* generate_account_data (account_csv_generator.py): the loop that draws a *)
(* unique account_id and a unique account_name for every row, and the      *)
(* write of the file.  Of an account row the model keeps the columns that  *)
(* hold the ID and the name.  order_config is None: no order file follows. *)

\* random.randint(10000, 99999): the two ends of the range
AccountNumbers == {10000, 99999}
AccountSuffixes == {"CUS", "SUP"}

\* the ID without its suffix: half as many distinct IDs
MutAccountIdWithoutSuffix(number, suffix) == "CSV-ACC-" \o ToString(number)
\* f"CSV-ACC-{number}-{suffix}"
generate_account_id(number, suffix) == "CSV-ACC-" \o ToString(number) \o "-" \o suffix

\* generate_account_name: a composed company name, Faker company names, a Faker
\* person name
AccountNames == {"Global Tech Pty Ltd", "Smith Group", "Jones Inc", "Jane Citizen"}

\* if account_id not in used_account_ids / if account_name not in used_account_names
MutAlwaysUnused(value, used) == TRUE
IsUnused(value, used) == value \notin used

\* the keys of the row dict that hold the ID and the name
\* account_currency = random.choice(['AUD', 'USD'])
AccountCurrencies == {"AUD", "USD"}
account_row(id, name, currency) ==
    (<<"account", "id">> :> PyStr(id))
    @@ (<<"account", "name">> :> PyStr(name))
    @@ (<<"account", "display", "name">> :> PyStr(name))
    @@ (<<"account", "currency">> :> PyStr(currency))

\* the function body up to the loop: the two sets start empty
EnterAccount ==
    /\ gen = "account"
    /\ pc = "call"
    /\ used_account_ids' = {}
    /\ used_account_names' = {}
    /\ pc' = "loop"
    /\ UNCHANGED <<args, locals, script_state, idx, item_idx, total_items, row, rows, chance, meta,
                   unique_account_id, files, payment_state>>

\* the first while True loop: one draw of generate_account_id, kept when the
\* ID is new, drawn again otherwise
DrawAccountId ==
    /\ gen = "account"
    /\ pc = "loop"
    /\ idx < count
    /\ \E number \in AccountNumbers, suffix \in AccountSuffixes :
         LET id == generate_account_id(number, suffix)
         IN  IF IsUnused(id, used_account_ids)
             THEN /\ used_account_ids' = used_account_ids \cup {id}
                  /\ unique_account_id' = id
                  /\ meta' = Append(meta, [number |-> number, suffix |-> suffix])
                  /\ pc' = "name"
             ELSE UNCHANGED <<used_account_ids, unique_account_id, meta, pc>>
    /\ UNCHANGED <<args, locals, script_state, idx, item_idx, total_items, row, rows, chance,
                   used_account_names, files, payment_state>>

\* the second while True loop and the rest of the pass: data.append(row)
DrawAccountName ==
    /\ gen = "account"
    /\ pc = "name"
    /\ \E name \in AccountNames, currency \in AccountCurrencies :
         IF IsUnused(name, used_account_names)
         THEN /\ used_account_names' = used_account_names \cup {name}
              /\ rows' = Append(rows, account_row(unique_account_id, name, currency))
              /\ idx' = idx + 1
              /\ pc' = "loop"
         ELSE UNCHANGED <<used_account_names, rows, idx, pc>>
    /\ UNCHANGED <<args, locals, script_state, item_idx, total_items, row, chance, meta,
                   used_account_ids, unique_account_id, files, payment_state>>

\* after the loop: df.to_csv(filepath), then the summary, which reads data[0]
\* (an IndexError for an empty batch), then return filepath
WriteAccountCsv ==
    /\ gen = "account"
    /\ pc = "loop"
    /\ idx = count
    /\ files' = Append(files, [entity |-> gen, rows |-> rows])
    /\ pc' = IF Len(rows) = 0 THEN "raised" ELSE "returned"
    /\ UNCHANGED <<args, locals, script_state, idx, item_idx, total_items, row, rows, chance, meta,
                   used_account_ids, used_account_names, unique_account_id,
                   payment_state>>

NextAccount == EnterAccount \/ DrawAccountId \/ DrawAccountName \/ WriteAccountCsv

\* the state before the call generate_account_data(num_rows)
InitAccount ==
    InitWith({"account"}, {<<>>}, 0..(MaxCount + 1), {default_item_config},
             [g \in {"account"} |-> {<<>>}], [g \in {"account"} |-> {<<>>}])

SpecAccount == InitAccount /\ [][NextAccount]_vars

\* C11: in every batch of generate_account_data each account_id is
\* CSV-ACC-<five digits>-(CUS|SUP), and the account_id values of the rows are
\* pairwise distinct, and so are the account_name values, whatever is drawn.
C11_AccountIdsWellFormedAndDistinct ==
    gen = "account" =>
        /\ \A i \in Positions :
              /\ rows[i][<<"account", "id">>] =
                    PyStr("CSV-ACC-" \o ToString(meta[i].number) \o "-" \o meta[i].suffix)
              /\ meta[i].number >= 10000 /\ meta[i].number <= 99999
              /\ meta[i].suffix \in {"CUS", "SUP"}
        /\ \A i \in Positions : \A j \in Positions :
              i # j => /\ rows[i][<<"account", "id">>] # rows[j][<<"account", "id">>]
                       /\ rows[i][<<"account", "name">>] # rows[j][<<"account", "name">>]
        /\ \A f \in Range(files) : f.rows = rows

\* a written batch of two accounts that share the number and differ in the suffix
C11_Witness ==
    /\ gen = "account"
    /\ pc = "returned"
    /\ Len(files) = 1
    /\ Len(rows) = 2
    /\ meta[1].number = meta[2].number

-----------------------------------------------------------------------------
(* generate_payment_rows and generate_purchase_payment_rows, and the       *)
(* generate_*_csv functions that call a row generator and write its rows.  *)
(* The payment generators are called without custom attributes.            *)

\* _get_invoice_choices: the invoice_ids argument, when it is not empty, decides
\* alone; the IDs loaded from the CSV are used otherwise
RECURSIVE StrippedNonBlank(_)
StrippedNonBlank(ids) ==
    IF Len(ids) = 0 THEN <<>>
    ELSE (IF Strip(Head(ids)) # "" THEN <<Strip(Head(ids))>> ELSE <<>>)
         \o StrippedNonBlank(Tail(ids))

MutChoicesKeepBlank(ids, loaded) == IF Len(ids) > 0 THEN ids ELSE loaded
get_invoice_choices(ids, loaded) ==
    IF Len(ids) > 0 THEN StrippedNonBlank(ids)
    ELSE IF Len(loaded) > 0 THEN loaded
    ELSE <<>>

\* str(row_num).zfill(3)
zfill3(n) ==
    IF n < 10 THEN "00" \o ToString(n)
    ELSE IF n < 100 THEN "0" \o ToString(n)
    ELSE ToString(n)

\* generate_payment_id(row_num) / generate_purchase_payment_id(row_num)
MutPaymentIdDrawn(g, row_num) ==
    {(IF g = "payment" THEN "CSV-PMT-" ELSE "CSV-PPMT-") \o zfill3(n) : n \in {1, 2}}
generate_payment_id(g, row_num) ==
    {(IF g = "payment" THEN "CSV-PMT-" ELSE "CSV-PPMT-") \o zfill3(row_num)}

\* random.sample(population, k): k elements at distinct positions, in any order
random_sample(population, k) ==
    {[i \in 1..k |-> population[f[i]]] :
        f \in {h \in [1..k -> 1..Len(population)] :
                  \A a \in 1..k : \A b \in 1..k : a # b => h[a] # h[b]}}

\* the values of one payment, which every row of the payment repeats
payment_row(g, id) ==
    LET p == ParentPrefix(g)
    IN  (p \o <<"id">> :> PyStr(id))
        @@ (p \o <<"origin">> :> PyStr(""))
        @@ (p \o <<"date">> :> PyStr("2025-01-01"))
        @@ (IF g = "payment" THEN p \o <<"alternate", "date">> :> PyStr("2025-01-02")
            ELSE <<>>)
        @@ (p \o <<"processor">> :> PyStr("Cash"))
        @@ (p \o <<"amount">> :> PyFloat(10000))
        @@ (p \o <<"note">> :> PyStr("Payment received"))

\* raise ValueError("No invoice IDs available for payment generation.")
RaiseNoInvoices ==
    /\ gen \in PaymentGenerators
    /\ pc = "call"
    /\ get_invoice_choices(invoice_ids, loaded_ids) = <<>>
    /\ pc' = "raised"
    /\ UNCHANGED <<args, locals, idx, item_idx, total_items, row, rows, chance, meta,
                   others>>

\* the function body up to the loop
EnterPayment ==
    /\ gen \in PaymentGenerators
    /\ pc = "call"
    /\ get_invoice_choices(invoice_ids, loaded_ids) # <<>>
    /\ invoice_choices' = get_invoice_choices(invoice_ids, loaded_ids)
    /\ pc' = "loop"
    /\ UNCHANGED <<args, locals, script_state, idx, item_idx, total_items, row, rows, chance, meta,
                   used_account_ids, used_account_names, unique_account_id, files,
                   invoice_ids, loaded_ids, multi_invoice_enabled, selected_invoices>>

\* one pass of the outer loop up to the inner loop: the payment's values and
\* selected_invoices; random.randint(2, 1) raises ValueError
BeginPayment ==
    /\ gen \in PaymentGenerators
    /\ pc = "loop"
    /\ idx < count
    /\ LET payment_num == idx + 1
           most == Min2(5, Len(invoice_choices))
       IN  IF multi_invoice_enabled /\ most < 2
           THEN /\ pc' = "raised"
                /\ UNCHANGED <<row, selected_invoices, total_items>>
           ELSE \E id \in generate_payment_id(gen, payment_num),
                   num_invoices \in (IF multi_invoice_enabled THEN 2..most ELSE {1}) :
                   \E selected \in random_sample(invoice_choices, num_invoices) :
                      /\ row' = payment_row(gen, id)
                      /\ selected_invoices' = selected
                      /\ total_items' = Len(selected)
                      /\ pc' = "item"
    /\ item_idx' = 0
    /\ UNCHANGED <<args, locals, script_state, idx, rows, chance, meta,
                   used_account_ids, used_account_names, unique_account_id, files,
                   invoice_ids, loaded_ids, multi_invoice_enabled, invoice_choices>>

\* one pass of the inner loop: rows.append(row)
AddPaymentRow ==
    /\ gen \in PaymentGenerators
    /\ pc = "item"
    /\ rows' = Append(rows, Put(row, ParentPrefix(gen) \o <<"invoice", "id">>,
                                 PyStr(selected_invoices[item_idx + 1])))
    /\ meta' = Append(meta, [parent |-> idx, item |-> item_idx])
    /\ IF item_idx + 1 < total_items
       THEN /\ item_idx' = item_idx + 1
            /\ pc' = "item"
            /\ idx' = idx
       ELSE /\ item_idx' = item_idx
            /\ pc' = "loop"
            /\ idx' = idx + 1
    /\ UNCHANGED <<args, locals, total_items, row, chance, others>>

\* generate_*_csv after its row generator has returned: df.to_csv(filepath)
WriteCsv ==
    /\ gen \in Generators \cup PaymentGenerators
    /\ pc = "returned"
    /\ files' = Append(files, [entity |-> gen, rows |-> rows])
    /\ pc' = "written"
    /\ UNCHANGED <<args, locals, script_state, idx, item_idx, total_items, row, rows, chance, meta,
                   used_account_ids, used_account_names, unique_account_id,
                   payment_state>>

NextCsv ==
    \/ Next
    \/ RaiseNoInvoices \/ EnterPayment \/ BeginPayment \/ AddPaymentRow
    \/ WriteCsv

\* the calls generate_*_csv(count, ...) of the six generators, with one line
\* item per parent in the four transactional ones
CsvItemConfigs ==
    {ItemConfig(TRUE, sys, PyBool(TRUE), <<"ITEM1">>, PyInt(1), PyInt(1)) : sys \in Flags}

InitCsv ==
    InitWith(Generators \cup PaymentGenerators, AccountIdArgs, 0..(MaxCount + 1),
             CsvItemConfigs,
             [g \in Generators \cup PaymentGenerators |-> {<<>>}],
             [g \in Generators \cup PaymentGenerators |-> {<<>>}])

SpecCsv == InitCsv /\ [][NextCsv]_vars

-----------------------------------------------------------------------------
(* Parent IDs within one batch.                                            *)

\* the next pass of the outer loop can give the new parent the ID of the parent
\* before it
CanRepeatParentId ==
    ENABLED (NextCsv /\ pc' = "item" /\ row'[IdColumn(gen)] = row[IdColumn(gen)])

\* a batch between two parents
BetweenParents == pc = "loop" /\ 0 < idx /\ idx < count

-----------------------------------------------------------------------------
(* Missing upstream IDs.                                                   *)

\* no usable upstream ID: the ID argument is None, empty or holds blank strings
\* only (and, for the payment generators, the invoice CSV gives no ID)
NoUpstreamId ==
    IF gen \in PaymentGenerators
    THEN /\ \A i \in DOMAIN invoice_ids : Strip(invoice_ids[i]) = ""
         /\ loaded_ids = <<>>
    ELSE /\ \A i \in DOMAIN account_ids : Strip(account_ids[i]) = ""
         /\ account_rows = <<>>

\* C13: when no usable upstream ID is available (account IDs for invoices,
\* orders, purchase orders and purchase invoices, invoice IDs for payments and
\* purchase payments), the row generator raises ValueError before it generates
\* any row, and generate_*_csv writes no file.
C13_NoUpstreamIdRaisesBeforeAnyRow ==
    (gen \in Generators \cup PaymentGenerators /\ NoUpstreamId) =>
        /\ rows = <<>>
        /\ files = <<>>
        /\ pc \in {"call", "raised"}
        /\ pc = "call" => /\ ENABLED (NextCsv /\ pc' = "raised")
                          /\ ~ENABLED (NextCsv /\ pc' # "raised")

\* a call with blank strings only has raised
C13_Witness ==
    /\ pc = "raised"
    /\ \/ gen \in PaymentGenerators /\ invoice_ids = <<" ">>
       \/ gen \in Generators /\ account_ids = <<" ">>
    /\ NoUpstreamId

-----------------------------------------------------------------------------
(* prompt_payment_methods (account_csv_generator.py) as a state machine:   *)
(* one step per input() call, the answers drawn from representatives.  A   *)
(* local variable that no assignment has reached is unbound; reading it    *)
(* raises UnboundLocalError.  pm.ot_processors_bound tells whether an       *)
(* assignment to ot_processors has been executed.                          *)

\* every variable but pm
generator_state == <<args, locals, pc, idx, item_idx, total_items, row, rows, chance,
                     meta, used_account_ids, used_account_names, unique_account_id,
                     files, payment_state, json_state>>
main_state == <<script, opts, config, spc, inputs_read, late_inputs, batch_i, n_rows,
                written, output, exit_status>>

\* the number of times in a row one question is asked again
MaxReprompts == 1

\* int(raw) on the answers the model gives: PyNone stands for ValueError
int_of(raw) ==
    CASE raw = "0" -> PyInt(0)
      [] raw = "1" -> PyInt(1)
      [] raw = "2" -> PyInt(2)
      [] OTHER -> PyNone

\* [p.strip() for p in raw.split(",") if p.strip()]
split_stripped(raw) ==
    CASE raw = "uuid-1" -> <<"uuid-1">>
      [] raw = "uuid-1, uuid-2" -> <<"uuid-1", "uuid-2">>
      [] OTHER -> <<>>

\* the question is asked again, at most MaxReprompts times in a row
AskAgain == /\ pm.reprompts < MaxReprompts
            /\ pm' = [pm EXCEPT !.reprompts = @ + 1]

\* use_pm = input("Do you want payment methods? ...")
PromptUsePm ==
    /\ pm.pos = "use_pm"
    /\ \E use_pm \in {"y", "n", ""} :
         pm' = IF use_pm \notin {"y", "yes"}
               THEN [pm EXCEPT !.pos = "returned"]
               ELSE [pm EXCEPT !.pos = "type"]
    /\ UNCHANGED <<generator_state, main_state>>

\* the loop around raw_pm = input("Enter choice (1-3): ")
PromptPmType ==
    /\ pm.pos = "type"
    /\ \E raw_pm \in {"", "1", "dd", "2", "3", "x"} :
         LET pm_type == CASE raw_pm = "" -> "both"
                          [] raw_pm \in {"1", "dd", "direct_debit"} -> "dd"
                          [] raw_pm \in {"2", "ot", "other"} -> "ot"
                          [] raw_pm \in {"3", "both"} -> "both"
                          [] OTHER -> "invalid"
         IN  IF pm_type = "invalid" THEN AskAgain
             ELSE pm' = [pm EXCEPT !.pm_type = pm_type, !.reprompts = 0,
                                   !.pos = IF pm_type \in {"dd", "both"}
                                           THEN "dd_count" ELSE "ot_count"]
    /\ UNCHANGED <<generator_state, main_state>>

\* the loops "How many DIRECT_DEBIT / OTHER methods per account?"
PromptCount ==
    /\ pm.pos \in {"dd_count", "ot_count"}
    /\ \E raw \in {"", "0", "2", "abc"} :
         LET val == IF raw = "" THEN PyInt(1) ELSE int_of(raw)
         IN  IF val = PyNone \/ val.n < 1 THEN AskAgain
             ELSE pm' = IF pm.pos = "dd_count"
                        THEN [pm EXCEPT !.dd_count = val.n, !.reprompts = 0,
                                        !.pos = "dd_processor"]
                        ELSE [pm EXCEPT !.ot_count = val.n, !.reprompts = 0,
                                        !.pos = "ot_processor"]
    /\ UNCHANGED <<generator_state, main_state>>

\* dd_processor = input(...).strip(), asked once; the loop that requires at
\* least one OTHER processor
PromptProcessor ==
    /\ pm.pos \in {"dd_processor", "ot_processor"}
    /\ \E raw \in {"", ",", "uuid-1", "uuid-1, uuid-2"} :
         IF pm.pos = "dd_processor"
         THEN pm' = [pm EXCEPT !.dd_processor = raw,
                               !.pos = IF pm.pm_type = "both" THEN "ot_count"
                                       ELSE "return"]
         ELSE IF split_stripped(raw) = <<>> THEN AskAgain
              ELSE pm' = [pm EXCEPT !.ot_processors = split_stripped(raw),
                                    !.ot_processors_bound = TRUE,
                                    !.ot_processor = split_stripped(raw)[1],
                                    !.reprompts = 0, !.pos = "return"]
    /\ UNCHANGED <<generator_state, main_state>>

\* the final return {..., "ot_processors": ot_processors}
ReturnPaymentConfig ==
    /\ pm.pos = "return"
    /\ pm' = [pm EXCEPT !.pos = IF pm.ot_processors_bound THEN "returned" ELSE "raised"]
    /\ UNCHANGED <<generator_state, main_state>>

NextPrompt ==
    PromptUsePm \/ PromptPmType \/ PromptCount \/ PromptProcessor \/ ReturnPaymentConfig

\* the call prompt_payment_methods()
InitPrompt ==
    /\ InitRows({"account"}, {<<>>}, {0}, {default_item_config},
                [g \in {"account"} |-> {<<>>}], [g \in {"account"} |-> {<<>>}])
    /\ pm = [pos |-> "use_pm", pm_type |-> "", dd_count |-> 0, ot_count |-> 0,
             dd_processor |-> "", ot_processor |-> "", ot_processors |-> <<>>,
             ot_processors_bound |-> FALSE, reprompts |-> 0]
    /\ script = "none"
    /\ opts = <<>>
    /\ config = <<>>
    /\ spc = "idle"
    /\ inputs_read = 0
    /\ late_inputs = 0
    /\ batch_i = 0
    /\ n_rows = 0
    /\ written = <<>>
    /\ output = {}
    /\ exit_status = -1
    /\ config_file = NoFile
    /\ loaded_config = PyNone

SpecPrompt == InitPrompt /\ [][NextPrompt]_vars

\* C14: for every sequence of answers a prompt function asks again or returns
\* a configuration, and never raises; prompt_payment_methods returns a config
\* dict for each of the three choices DIRECT_DEBIT only, OTHER only and both.
C14_PromptNeverRaises ==
    /\ pm.pos # "raised"
    /\ \A choice \in {"dd", "ot", "both"} :
          (pm.pos = "return" /\ pm.pm_type = choice) =>
              ENABLED (NextPrompt /\ pm'.pos = "returned")

-----------------------------------------------------------------------------
(* The entry points of the nine generator scripts: the command line, the   *)
(* batch mode, the loading of a configuration, the interactive prompts,    *)
(* and the calls of the generator functions, which produce the rows of a   *)
(* file one by one and then write the file.  Of a configuration the model  *)
(* keeps what decides the control flow; of a file, how many rows it has.   *)

Scripts == {"account", "item", "inventory", "invoice", "order", "purchase_order",
            "purchase_invoice", "payment", "purchase_payment"}

\* the scripts whose parser defines --batch
BatchScripts == Scripts \ {"payment", "purchase_payment"}

\* the scripts that wrap their entry point in try / except KeyboardInterrupt
MutEveryScriptCatches == Scripts
CatchingScripts == Scripts \ {"account"}

\* counts = [200, 300, 400, 500]
MutBatchCountsDescending == <<500, 400, 300, 200>>
BatchCounts == <<200, 300, 400, 500>>

\* the number of prompt functions the interactive path calls, in order
NumPrompts ==
    [s \in Scripts |->
        CASE s = "account" -> 10
          [] s = "item" -> 16
          [] s = "inventory" -> 0
          [] s \in {"invoice", "purchase_invoice"} -> 6
          [] s = "purchase_order" -> 5
          [] OTHER -> 4]

\* what a configuration decides: sale_properties_enabled (item), whether
\* account_address_config is present (account), whether order_config asks for
\* an order file (account), whether an invoice ID is available (payments)
DefaultConfig ==
    [sale_properties_enabled |-> TRUE, address_config |-> TRUE,
     generate_orders |-> FALSE, upstream_ids |-> TRUE]

\* the configurations a JSON file can give a script
LoadedConfigs(s) ==
    CASE s = "item" ->
           {[DefaultConfig EXCEPT !.sale_properties_enabled = b] : b \in BOOLEAN}
      [] s = "account" ->
           {[DefaultConfig EXCEPT !.address_config = a, !.generate_orders = o] :
               a \in BOOLEAN, o \in BOOLEAN}
      [] s \in {"payment", "purchase_payment"} ->
           {[DefaultConfig EXCEPT !.upstream_ids = b] : b \in BOOLEAN}
      [] OTHER -> {DefaultConfig}

\* the configurations the prompts can give: the address prompt has run
PromptedConfigs(s) == {c \in LoadedConfigs(s) : c.address_config}

At(at, left, entity) == [at |-> at, left |-> left, again |-> 0, entity |-> entity]

\* the number of rows of the file being generated
Target == IF opts.batch THEN BatchCounts[batch_i] ELSE opts.count

\* the script ends: what it prints last and its exit status
Exit(message, status) ==
    /\ spc' = At("exit", 0, spc.entity)
    /\ output' = output \cup message
    /\ exit_status' = status

\* save_generation_config(args.save_config, config) when --save-config is given
Saved == IF opts.save_config THEN {"Configuration saved"} ELSE {}

\* parser.parse_args() and the branch the entry point takes
Start ==
    /\ spc.at = "start"
    /\ IF opts.batch /\ script \notin BatchScripts
       THEN Exit({"usage error"}, 2) /\ UNCHANGED <<config, batch_i>>
       ELSE IF opts.batch
       THEN /\ spc' = At("generate", 0, script)
            /\ batch_i' = 1
            /\ UNCHANGED <<config, output, exit_status>>
       ELSE CASE opts.load_config = "missing" ->
                   \* except OSError: print("ERROR: ..."); raise SystemExit(1)
                   Exit({"ERROR: Could not load config"}, 1)
                   /\ UNCHANGED <<config, batch_i>>
              [] opts.load_config = "invalid" ->
                   \* json.load raises JSONDecodeError, which nothing catches
                   Exit({"Traceback"}, 1) /\ UNCHANGED <<config, batch_i>>
              [] opts.load_config = "ok" ->
                   \E c \in LoadedConfigs(script) :
                      /\ config' = c
                      /\ spc' = IF script = "account" /\ ~c.address_config
                                THEN At("prompt", 1, script)
                                ELSE At("generate", 0, script)
                      /\ UNCHANGED <<batch_i, output, exit_status>>
              [] OTHER ->
                   IF NumPrompts[script] = 0
                   THEN /\ spc' = At("generate", 0, script)
                        /\ output' = output \cup Saved
                        /\ UNCHANGED <<config, batch_i, exit_status>>
                   ELSE /\ spc' = At("prompt", NumPrompts[script], script)
                        /\ UNCHANGED <<config, batch_i, output, exit_status>>
    /\ UNCHANGED <<generator_state, pm, script, opts, inputs_read, late_inputs,
                   n_rows, written>>

\* one input() call of the prompt function the script is in: the answer is
\* rejected and asked again, or the function returns, or (prompt_payment_methods,
\* the fourth function of the account script) the function raises
Prompt ==
    /\ spc.at = "prompt"
    /\ inputs_read' = inputs_read + 1
    /\ \E outcome \in {"again", "return", "raise"} :
         CASE outcome = "again" ->
                /\ spc.again < MaxReprompts
                /\ spc' = [spc EXCEPT !.again = @ + 1]
                /\ UNCHANGED <<config, output, exit_status>>
           [] outcome = "return" ->
                IF spc.left > 1
                THEN /\ spc' = At("prompt", spc.left - 1, script)
                     /\ UNCHANGED <<config, output, exit_status>>
                ELSE /\ spc' = At("generate", 0, script)
                     /\ IF opts.load_config = "ok"
                        THEN config' = [config EXCEPT !.address_config = TRUE]
                             /\ UNCHANGED output
                        ELSE config' \in PromptedConfigs(script)
                             /\ output' = output \cup Saved
                     /\ UNCHANGED exit_status
           [] outcome = "raise" ->
                /\ script = "account"
                /\ opts.load_config = "none"
                /\ spc.left = NumPrompts[script] - 3
                /\ Exit({"Traceback"}, 1)
                /\ UNCHANGED config
    /\ UNCHANGED <<generator_state, pm, script, opts, late_inputs, batch_i, n_rows,
                   written>>

\* the row generator finds no invoice ID: raise ValueError, which propagates
RaiseValueError ==
    /\ spc.at = "generate"
    /\ ~config.upstream_ids
    /\ Exit({"Traceback"}, 1)
    /\ UNCHANGED <<generator_state, pm, script, opts, config, inputs_read, late_inputs,
                   batch_i, n_rows, written>>

\* one pass of the generation loop; generate_item_data asks "Use sale
\* properties?" in every pass when sale_properties_enabled is false
GenerateRow ==
    /\ spc.at = "generate"
    /\ config.upstream_ids
    /\ n_rows < Target
    /\ n_rows' = n_rows + 1
    /\ IF script = "item" /\ ~config.sale_properties_enabled
       THEN /\ inputs_read' = inputs_read + 1
            /\ late_inputs' = IF n_rows > 0 THEN late_inputs + 1 ELSE late_inputs
       ELSE UNCHANGED <<inputs_read, late_inputs>>
    /\ UNCHANGED <<generator_state, pm, script, opts, config, spc, batch_i, written,
                   output, exit_status>>

\* the loop has ended
MutWriteAtAnyTime == TRUE
AllRowsGenerated == n_rows = Target

\* df.to_csv(filepath) and what follows it: the next count of the batch, the
\* order file of the account script, or the end of the script
WriteFile ==
    /\ spc.at = "generate"
    /\ config.upstream_ids
    /\ AllRowsGenerated
    /\ written' = Append(written, [entity |-> spc.entity, batch_i |-> batch_i,
                                   rows |-> n_rows, of |-> Target])
    /\ IF opts.batch /\ batch_i < Len(BatchCounts)
       THEN /\ batch_i' = batch_i + 1
            /\ n_rows' = 0
            /\ UNCHANGED <<spc, output, exit_status>>
       ELSE IF ~opts.batch /\ script = "account" /\ spc.entity = "account"
               /\ config.generate_orders
       THEN /\ spc' = At("generate", 0, "order")
            /\ n_rows' = 0
            /\ UNCHANGED <<batch_i, output, exit_status>>
       ELSE /\ Exit({}, 0)
            /\ UNCHANGED <<batch_i, n_rows>>
    /\ UNCHANGED <<generator_state, pm, script, opts, config, inputs_read, late_inputs>>

\* Ctrl-C while the script runs: "... cancelled by user." where the entry point
\* catches KeyboardInterrupt, a traceback and the status of SIGINT where not
Interrupt ==
    /\ spc.at \in {"prompt", "generate"}
    /\ IF script \in CatchingScripts
       THEN Exit({"cancelled by user"}, 0)
       ELSE Exit({"Traceback", "KeyboardInterrupt"}, 130)
    /\ UNCHANGED <<generator_state, pm, script, opts, config, inputs_read, late_inputs,
                   batch_i, n_rows, written>>

NextScript == Start \/ Prompt \/ RaiseValueError \/ GenerateRow \/ WriteFile \/ Interrupt

\* a script is started with a command line
InitScript ==
    /\ InitRows({"invoice"}, {<<>>}, {0}, {default_item_config},
                [g \in {"invoice"} |-> {<<>>}], [g \in {"invoice"} |-> {<<>>}])
    /\ pm = [pos |-> "idle"]
    /\ script \in Scripts
    /\ opts \in [batch : BOOLEAN, load_config : {"none", "missing", "invalid", "ok"},
                 save_config : BOOLEAN, count : 1..(MaxCount + 1)]
    /\ config = DefaultConfig
    /\ spc = At("start", 0, script)
    /\ inputs_read = 0
    /\ late_inputs = 0
    /\ batch_i = 0
    /\ n_rows = 0
    /\ written = <<>>
    /\ output = {}
    /\ exit_status = -1
    /\ config_file = NoFile
    /\ loaded_config = PyNone

SpecScript == InitScript /\ [][NextScript]_vars

-----------------------------------------------------------------------------
(* Properties of the runs of the scripts.                                  *)

\* C15: in every run of every generator script all interactive prompts happen
\* before the first row is generated: once generation has started no input is
\* read, whether the configuration was collected interactively or loaded.
C15_NoInputAfterFirstRow == late_inputs = 0


\* the file the script is generating, or was generating when it ended
CurrentFile == <<spc.entity, batch_i>>
FileOf(f) == <<f.entity, f.batch_i>>

\* the run was ended by an exception: a traceback, or the cancellation message
EndedByException == output \cap {"Traceback", "cancelled by user"} # {}

\* C16: in every generator the CSV file is written by a single write, which
\* happens only after the last row of that file has been generated; if row
\* generation raises, no CSV file for that entity has been written.
C16_FileWrittenOnceAfterAllRows ==
    /\ \A i \in DOMAIN written : written[i].rows = written[i].of
    /\ \A i \in DOMAIN written : \A j \in DOMAIN written :
          i # j => FileOf(written[i]) # FileOf(written[j])
    /\ spc.at = "generate" => \A i \in DOMAIN written : FileOf(written[i]) # CurrentFile
    /\ EndedByException => \A i \in DOMAIN written : FileOf(written[i]) # CurrentFile

\* the account script has written its account file and then its order file
C16_Witness ==
    /\ script = "account"
    /\ exit_status = 0
    /\ Len(written) = 2
    /\ written[1].entity = "account" /\ written[1].rows = MaxCount + 1
    /\ written[2].entity = "order"

\* C17: in every generator script's entry point a KeyboardInterrupt raised at
\* any point is caught at the top level and turned into a printed cancellation
\* message, so that the script ends without a traceback.
C17_InterruptEndsWithCancellationMessage ==
    (output \cap {"KeyboardInterrupt", "cancelled by user"} # {}) =>
        /\ "cancelled by user" \in output
        /\ "Traceback" \notin output

\* C18: when --load-config names a file that is missing or cannot be read as a
\* configuration, the script reports the error, exits with status 1, and
\* neither generates rows nor writes a CSV file (batch mode, which ignores
\* --load-config, left aside).
C18_BadConfigIsReportedWithStatusOne ==
    (~opts.batch /\ opts.load_config \in {"missing", "invalid"}) =>
        /\ n_rows = 0
        /\ written = <<>>
        /\ spc.at = "exit" => /\ output = {"ERROR: Could not load config"}
                              /\ exit_status = 1

\* C19: when a script is run with --load-config and the file loads, the run
\* issues no interactive prompt at all, whatever keys the config contains or
\* omits.
C19_LoadedConfigNeverPrompts ==
    (~opts.batch /\ opts.load_config = "ok") => inputs_read = 0

\* what C20 says of a batch run of a script: no prompt, no effect of
\* --load-config and --save-config, the files of 200, 300, 400 and 500 rows in
\* that order, exit status 0 (a run that Ctrl-C ended is left aside)
BatchRunAsStated ==
    /\ inputs_read = 0
    /\ output \cap {"Configuration saved", "ERROR: Could not load config"} = {}
    /\ config = DefaultConfig
    /\ Len(written) <= 4
    /\ \A i \in DOMAIN written : written[i].rows = <<200, 300, 400, 500>>[i]
    /\ (spc.at = "exit" /\ ~EndedByException) => exit_status = 0 /\ Len(written) = 4

\* C20 (as stated): when --batch is given, a generator script generates files
\* for the counts 200, 300, 400 and 500 in that order, issues no interactive
\* prompt, never enters the single-file path, and ends with exit status 0.
C20_BatchGeneratesFourFiles == opts.batch => BatchRunAsStated

\* C20 (amended): the same for the seven scripts whose parser defines --batch;
\* the payment and the purchase payment script define no --batch: given it,
\* they end in a usage error with exit status 2 and generate nothing.
C20_BatchGeneratesFourFilesWhereDefined ==
    opts.batch =>
        IF script \in BatchScripts THEN BatchRunAsStated
        ELSE /\ inputs_read = 0 /\ n_rows = 0 /\ written = <<>>
             /\ spc.at = "exit" => exit_status = 2 /\ output = {"usage error"}

\* a batch run given --load-config and --save-config has ended with four files
C20_Witness ==
    /\ opts.batch /\ opts.load_config = "missing" /\ opts.save_config
    /\ script = "invoice"
    /\ exit_status = 0
    /\ Len(written) = 4
    /\ written[4].rows = 500

-----------------------------------------------------------------------------
\* Saving and loading a configuration: save_generation_config writes the
\* mapping with json.dump, load_generation_config reads it with json.load.
\* A Python list is [t |-> "list", items |-> a sequence], a dict with string
\* keys is [t |-> "dict", items |-> a function on its keys].

PyList(items) == [t |-> "list", items |-> items]
PyDict(items) == [t |-> "dict", items |-> items]
\* float("nan") and float("inf"): floats that are no number of hundredths
PyNaN == [t |-> "float", s |-> "nan", n |-> 0]
PyInf == [t |-> "float", s |-> "inf", n |-> 0]

\* float(rate_str) for the answers of the tax rate prompt; an answer that is
\* no float literal raises ValueError and the prompt asks again
RateAnswers == {"10", "12.5", "nan", "inf"}
float_of(raw) ==
    CASE raw = "10" -> PyFloat(1000)
      [] raw = "12.5" -> PyFloat(1250)
      [] raw = "nan" -> PyNaN
      [] raw = "inf" -> PyInf

\* json.dump: the JSON document written for a Python value.  An int is
\* written without a fraction, a float with one (repr), nan and inf as the
\* literals NaN and Infinity (allow_nan is left at its default).
RECURSIVE json_dump(_)
json_dump(v) ==
    CASE v.t = "dict" ->
           [j |-> "object", members |-> [k \in DOMAIN v.items |-> json_dump(v.items[k])]]
      [] v.t = "list" ->
           [j |-> "array", elements |-> [i \in DOMAIN v.items |-> json_dump(v.items[i])]]
      [] v.t = "str" -> [j |-> "string", s |-> v.s]
      [] v.t = "int" -> [j |-> "number", fraction |-> FALSE, n |-> v.n]
      [] v.t = "float" /\ v.s = "nan" -> [j |-> "NaN"]
      [] v.t = "float" /\ v.s = "inf" -> [j |-> "Infinity"]
      [] v.t = "float" -> [j |-> "number", fraction |-> TRUE, n |-> v.n]
      [] v.t = "bool" -> [j |-> IF v.n = 1 THEN "true" ELSE "false"]
      [] v.t = "none" -> [j |-> "null"]

\* json.load: the Python value built for a JSON document
RECURSIVE json_load(_)
json_load(d) ==
    CASE d.j = "object" -> PyDict([k \in DOMAIN d.members |-> json_load(d.members[k])])
      [] d.j = "array" -> PyList([i \in DOMAIN d.elements |-> json_load(d.elements[i])])
      [] d.j = "string" -> PyStr(d.s)
      [] d.j = "number" -> IF d.fraction THEN PyFloat(d.n) ELSE PyInt(d.n)
      [] d.j = "NaN" -> PyNaN
      [] d.j = "Infinity" -> PyInf
      [] d.j = "true" -> PyBool(TRUE)
      [] d.j = "false" -> PyBool(FALSE)
      [] d.j = "null" -> PyNone

\* a == b in Python for two values that are not the same object: containers
\* compare element by element, numbers by value, and nan equals nothing
RECURSIVE py_eq(_, _)
py_eq(a, b) ==
    CASE a.t = "dict" /\ b.t = "dict" ->
           /\ DOMAIN a.items = DOMAIN b.items
           /\ \A k \in DOMAIN a.items : py_eq(a.items[k], b.items[k])
      [] a.t = "list" /\ b.t = "list" ->
           /\ DOMAIN a.items = DOMAIN b.items
           /\ \A i \in DOMAIN a.items : py_eq(a.items[i], b.items[i])
      [] a.t \in {"dict", "list"} \/ b.t \in {"dict", "list"} -> FALSE
      [] a = PyNaN \/ b = PyNaN -> FALSE
      [] a.t \in {"int", "bool"} /\ b.t = "float" -> b.s = "" /\ b.n = a.n * 100
      [] a.t = "float" /\ b.t \in {"int", "bool"} -> a.s = "" /\ a.n = b.n * 100
      [] a.t \in {"int", "bool"} /\ b.t \in {"int", "bool"} -> a.n = b.n
      [] OTHER -> a = b

\* the answers of prompt_invoice_account_ids and prompt_custom_form_template
AccountIdAnswers == {<<"ACC-1">>, <<"ACC-1", "ACC-2">>}
TemplateAnswers == {"Default for Sale Invoice", "My Form"}
\* the tax codes entered, in order; each is followed by a rate
TaxCodeAnswers == {<<>>, <<"uuid-1">>, <<"uuid-1", "uuid-2">>}
\* the choices of prompt_invoice_item_config: 1 system only, 2 lines only, 3 both
ItemChoices == {"1", "2", "3"}

prompt_tax_config(codes, rates) ==
    PyDict([k \in {"tax_codes", "tax_rates"} |->
              IF k = "tax_codes"
              THEN PyList([i \in DOMAIN codes |-> PyStr(codes[i])])
              ELSE PyDict([c \in Range(codes) |->
                             float_of(rates[CHOOSE i \in DOMAIN codes :
                                              /\ codes[i] = c
                                              /\ \A h \in DOMAIN codes :
                                                    codes[h] = c => h <= i])])])

prompt_invoice_item_config(choice, min_items, max_items) ==
    PyDict([k \in {"include_system_items", "include_line_items", "system_identifiers",
                   "min_items_per_invoice", "max_items_per_invoice"} |->
              CASE k = "include_system_items" -> PyBool(choice \in {"1", "3"})
                [] k = "include_line_items" -> PyBool(choice \in {"2", "3"})
                [] k = "system_identifiers" ->
                     PyList(IF choice \in {"1", "3"} THEN <<PyStr("ITEM-1001")>> ELSE <<>>)
                [] k = "min_items_per_invoice" -> PyInt(min_items)
                [] k = "max_items_per_invoice" -> PyInt(max_items)])

\* main, interactive branch: the prompts, then the mapping that is saved
PromptConfig ==
    /\ spc = "prompts"
    /\ \E ids \in AccountIdAnswers, template \in TemplateAnswers,
          codes \in TaxCodeAnswers, choice \in ItemChoices,
          min_items \in 1..MaxItems :
          \E rates \in [DOMAIN codes -> RateAnswers],
             max_items \in {min_items, Max2(5, min_items)} :
             /\ config' = PyDict(
                 [k \in {"invoice_count", "account_ids", "custom_form_template",
                         "tax_config", "invoice_custom_attributes", "item_config",
                         "line_item_custom_attributes"} |->
                    CASE k = "invoice_count" -> PyInt(opts.count)
                      [] k = "account_ids" -> PyList([i \in DOMAIN ids |-> PyStr(ids[i])])
                      [] k = "custom_form_template" -> PyStr(template)
                      [] k = "tax_config" -> prompt_tax_config(codes, rates)
                      [] k = "invoice_custom_attributes" -> PyList(<<>>)
                      [] k = "item_config" ->
                           prompt_invoice_item_config(choice, min_items, max_items)
                      [] k = "line_item_custom_attributes" -> PyList(<<>>)])
             \* ids, template, tax (y/n, then code, rate and "another?" per
             \* code), no attributes, item choice, system ids, min, max, no
             \* line attributes
             /\ inputs_read' = inputs_read + 8 + 3 * Len(codes)
                                  + (IF choice \in {"1", "3"} THEN 1 ELSE 0)
    /\ spc' = "save"
    /\ UNCHANGED <<generator_state, pm, script, opts, late_inputs,
                   batch_i, n_rows, written, output, exit_status>>

\* what the two functions leave alone
no_file_state == <<args, locals, pc, idx, item_idx, total_items, row, rows, chance, meta,
                   used_account_ids, used_account_names, unique_account_id, files,
                   payment_state, pm, script, opts, config, inputs_read, late_inputs,
                   batch_i, n_rows, written, exit_status>>

\* save_generation_config(path, config): the document replaces the file, or
\* open raises OSError, which is caught and reported as a warning
SaveGenerationConfig ==
    /\ spc = "save"
    /\ \/ /\ config_file' = json_dump(config)
          /\ output' = output \cup {"Configuration saved"}
       \/ /\ output' = output \cup {"WARNING"}
          /\ UNCHANGED config_file
    /\ spc' = "load"
    /\ UNCHANGED <<no_file_state, loaded_config>>

\* load_generation_config(path): open raises when there is no file
LoadGenerationConfig ==
    /\ spc = "load"
    /\ IF config_file = NoFile
       THEN spc' = "raised" /\ UNCHANGED loaded_config
       ELSE spc' = "loaded" /\ loaded_config' = json_load(config_file)
    /\ UNCHANGED <<no_file_state, config_file, output>>

NextConfig == PromptConfig \/ SaveGenerationConfig \/ LoadGenerationConfig

InitConfig ==
    /\ InitRows({"invoice"}, {<<>>}, {0}, {default_item_config},
                [g \in {"invoice"} |-> {<<>>}], [g \in {"invoice"} |-> {<<>>}])
    /\ pm = [pos |-> "idle"]
    /\ script = "invoice"
    /\ opts \in [batch : {FALSE}, load_config : {"none"}, save_config : {TRUE},
                 count : 1..(MaxCount + 1)]
    /\ config = PyNone
    /\ spc = "prompts"
    /\ inputs_read = 0
    /\ late_inputs = 0
    /\ batch_i = 0
    /\ n_rows = 0
    /\ written = <<>>
    /\ output = {}
    /\ exit_status = -1
    /\ config_file = NoFile
    /\ loaded_config = PyNone

SpecConfig == InitConfig /\ [][NextConfig]_vars

\* C21: when a script has saved the mapping built from its prompts and then
\* loads the file at the same path, the mapping returned equals (==) the one
\* that was saved.
C21_SaveThenLoadReturnsEqualMapping ==
    (spc = "loaded" /\ "Configuration saved" \in output) => py_eq(loaded_config, config)

\* the same for the mappings that hold no nan: these do come back equal
C21_EqualUnlessNaN ==
    (spc = "loaded" /\ \A c \in DOMAIN config.items["tax_config"].items["tax_rates"].items :
                          config.items["tax_config"].items["tax_rates"].items[c] # PyNaN)
        => py_eq(loaded_config, config)

-----------------------------------------------------------------------------
(* C22: the columns of the rows of one call.                               *)

\* C22: all rows returned by one call of a transactional row generator have
\* the same set of columns; in particular every row, a system-item row as
\* much as a free-text row, carries every configured line-level custom
\* attribute column, and no cell of a row is null.
C22_AllRowsHaveTheSameColumns ==
    pc = "returned" =>
        /\ \A i, j \in DOMAIN rows : DOMAIN rows[i] = DOMAIN rows[j]
        /\ \A i \in DOMAIN rows :
              /\ \A a \in Range(line_item_custom_attributes) :
                    a.column_name \in DOMAIN rows[i]
              /\ \A k \in DOMAIN rows[i] : rows[i][k] # PyNone

\* the same for the invoice generators, which set every line item column on
\* every row
C22_InvoiceRowsHaveTheSameColumns ==
    (pc = "returned" /\ gen \in {"invoice", "purchase_invoice"}) =>
        /\ \A i, j \in DOMAIN rows : DOMAIN rows[i] = DOMAIN rows[j]
        /\ \A i \in DOMAIN rows :
              /\ \A a \in Range(line_item_custom_attributes) :
                    a.column_name \in DOMAIN rows[i]
              /\ \A k \in DOMAIN rows[i] : rows[i][k] # PyNone

-----------------------------------------------------------------------------
(* C24: the configuration inputs of a row generator.                       *)

\* C24: no step of a row generator modifies its configuration inputs: the
\* item_config mapping, the tax configuration and the two attribute lists
\* are the same after every step as before it, also when both include flags
\* were false and line items were forced on.
C24_ConfigurationInputsNeverModified ==
    [][UNCHANGED <<item_config, tax_config, custom_attributes,
                   line_item_custom_attributes>>]_vars

\* a finished call in which line items were forced on, the flags of the
\* caller's mapping still both false
C24_Witness ==
    /\ pc = "returned"
    /\ Len(rows) > 0
    /\ item_config.given
    /\ ~Truthy(item_config.include_system_items)
    /\ ~Truthy(item_config.include_line_items)
    /\ include_line_items

-----------------------------------------------------------------------------
(* C25: the values of the choice attribute types.                          *)

-----------------------------------------------------------------------------
(* C26, C27: the rows of the payment generators.                           *)

InvoiceIdColumn == ParentPrefix(gen) \o <<"invoice", "id">>

\* distinct payments have distinct IDs, and the rows of one payment agree in
\* every column but the invoice ID
PaymentRowsAgree ==
    \A i, j \in DOMAIN rows :
        /\ DOMAIN rows[i] = DOMAIN rows[j]
        /\ meta[i].parent # meta[j].parent =>
              rows[i][IdColumn(gen)] # rows[j][IdColumn(gen)]
        /\ meta[i].parent = meta[j].parent =>
              \A k \in DOMAIN rows[i] \ {InvoiceIdColumn} : rows[i][k] = rows[j][k]

\* C26: in the two payment row generators distinct payments have distinct
\* IDs, all rows of one payment are identical in every column except the
\* invoice ID column, and the invoice IDs on the rows of one payment are
\* pairwise distinct members of the invoice pool.
C26_PaymentRowsDifferOnlyInDistinctInvoiceIds ==
    gen \in PaymentGenerators =>
        /\ PaymentRowsAgree
        /\ \A i \in DOMAIN rows :
              rows[i][InvoiceIdColumn].s \in Range(get_invoice_choices(invoice_ids, loaded_ids))
        /\ \A i, j \in DOMAIN rows :
              (i # j /\ meta[i].parent = meta[j].parent) =>
                  rows[i][InvoiceIdColumn] # rows[j][InvoiceIdColumn]

\* the same for the pools that hold no ID twice
C26_DistinctInvoiceIdsForDistinctPool ==
    (/\ gen \in PaymentGenerators
     /\ \A a, b \in DOMAIN invoice_choices :
           a # b => invoice_choices[a] # invoice_choices[b]) =>
        /\ PaymentRowsAgree
        /\ \A i, j \in DOMAIN rows :
              (i # j /\ meta[i].parent = meta[j].parent) =>
                  rows[i][InvoiceIdColumn] # rows[j][InvoiceIdColumn]


\* C27: for every non-empty invoice pool, a pool of one ID included, the two
\* payment row generators called with multi_invoice_enabled = true do not
\* raise, and every payment gets between 1 and 5 rows and never more rows
\* than the pool has IDs.
C27_MultiInvoiceNeverRaises ==
    (/\ gen \in PaymentGenerators
     /\ multi_invoice_enabled
     /\ get_invoice_choices(invoice_ids, loaded_ids) # <<>>) =>
        /\ pc # "raised"
        /\ pc = "returned" =>
              \A p \in 0..(count - 1) :
                 LET n == Cardinality({i \in DOMAIN rows : meta[i].parent = p})
                 IN  /\ 1 <= n /\ n <= 5
                     /\ n <= Len(get_invoice_choices(invoice_ids, loaded_ids))

-----------------------------------------------------------------------------
\* generate_account_data with order_config: after the account file is
\* written, generate_order_csv is called with the account rows of the run.
\* config holds order_config.

\* order_count = max(1, int(order_config.get("order_count", num_rows)))
OrderCounts == {0}
\* num_rows of the runs that go on to generate orders
NumRowsArgs == {0, 1, 2}

\* the call order_csv_generator.generate_order_csv(order_count,
\* account_rows=data, ...).  Of an account row the order generator reads the
\* keys account_id and account_currency.  The ten default attributes of each
\* level are left out: their values bear on no other column.
GenerateOrders ==
    /\ gen = "account"
    /\ pc = "returned"
    /\ config.generate_orders
    /\ gen' = "order"
    /\ account_rows' = [i \in DOMAIN rows |->
                          [account_id |-> rows[i][<<"account", "id">>],
                           account_currency |-> rows[i][<<"account", "currency">>]]]
    /\ account_ids' = <<>>
    /\ count' = Max2(1, config.order_count)
    /\ item_config' = default_item_config
    /\ custom_attributes' = <<>>
    /\ line_item_custom_attributes' = <<>>
    /\ pc' = "call"
    /\ idx' = 0
    /\ item_idx' = 0
    /\ rows' = <<>>
    /\ meta' = <<>>
    /\ UNCHANGED <<tax_config, warehouse_config, locals, total_items, row, chance,
                   used_account_ids, used_account_names, unique_account_id, files,
                   payment_state, script_state>>

NextAccountOrders ==
    \/ EnterAccount \/ DrawAccountId \/ DrawAccountName \/ WriteAccountCsv
    \/ GenerateOrders
    \/ Enter \/ BeginParent \/ AddItem \/ Return \/ WriteCsv

InitAccountOrders ==
    /\ InitRows({"account"}, {<<>>}, NumRowsArgs, {default_item_config},
                [g \in {"account"} |-> {<<>>}], [g \in {"account"} |-> {<<>>}])
    /\ pm = [pos |-> "idle"]
    /\ script = "none"
    /\ opts = <<>>
    /\ config \in [generate_orders : BOOLEAN, order_count : OrderCounts]
    /\ spc = "idle"
    /\ inputs_read = 0
    /\ late_inputs = 0
    /\ batch_i = 0
    /\ n_rows = 0
    /\ written = <<>>
    /\ output = {}
    /\ exit_status = -1
    /\ config_file = NoFile
    /\ loaded_config = PyNone

SpecAccountOrders == InitAccountOrders /\ [][NextAccountOrders]_vars

\* C23: when generate_account_data also generates orders, the
\* order_account_id of every order row is the account_id of an account row
\* written in the same run, and the order_currency on the first row of each
\* order is the account_currency of that account row.
C23_OrdersReferToAccountsOfTheRun ==
    (gen = "order" /\ Len(files) > 0) =>
        \A i \in DOMAIN rows :
            \E a \in DOMAIN files[1].rows :
                /\ files[1].entity = "account"
                /\ rows[i][<<"order", "account", "id">>] =
                      files[1].rows[a][<<"account", "id">>]
                /\ meta[i].item = 0 =>
                      rows[i][<<"order", "currency">>] =
                          files[1].rows[a][<<"account", "currency">>]

\* an order file written after an account file with a USD account, the order
\* on that account
C23_Witness ==
    /\ gen = "order"
    /\ pc = "written"
    /\ Len(files) = 2
    /\ \E i \in DOMAIN rows : rows[i][<<"order", "currency">>] = PyStr("USD")

-----------------------------------------------------------------------------
(* C28: termination of the account ID retry loop.                          *)

\* the number of distinct IDs generate_account_id can return
AccountIdPool == Cardinality(AccountNumbers) * Cardinality(AccountSuffixes)

\* the calls generate_account_data(num_rows) up to one row more than there
\* are IDs
InitAccountFair ==
    InitWith({"account"}, {<<>>}, 0..(AccountIdPool + 1), {default_item_config},
             [g \in {"account"} |-> {<<>>}], [g \in {"account"} |-> {<<>>}])

\* The program runs on: each step that can be taken is taken.  A draw that is
\* rejected leaves the state as it is, so the step DrawAccountId is the draw
\* of an unused ID, which fair draws make sooner or later while one exists;
\* the same for the names.
SpecAccountFair ==
    /\ InitAccountFair
    /\ [][NextAccount]_vars
    /\ WF_vars(EnterAccount)
    /\ WF_vars(DrawAccountId)
    /\ WF_vars(DrawAccountName)
    /\ WF_vars(WriteAccountCsv)

\* C28: under fair draws the ID retry loop ends for every row, and the file
\* is written, exactly when num_rows is at most the number of distinct
\* account IDs; for a larger num_rows the loop of the first row beyond that
\* number never ends and no file is written.
C28_IdLoopTerminatesUpToThePool ==
    /\ (count <= AccountIdPool) => <>(Len(files) = 1)
    /\ (count > AccountIdPool) =>
          /\ [](files = <<>>)
          /\ <>[](pc = "loop" /\ idx = AccountIdPool
                  /\ Cardinality(used_account_ids) = AccountIdPool)

\* the loop of the first row beyond the pool: every ID is used
C28_Witness ==
    /\ count > AccountIdPool
    /\ pc = "loop"
    /\ idx = AccountIdPool
    /\ Cardinality(used_account_ids) = AccountIdPool
    /\ files = <<>>

-----------------------------------------------------------------------------
\* The record count a non-batch run passes to its generation function.

\* the default of the positional argument count
DefaultCount(s) == IF s = "purchase_payment" THEN 100 ELSE 200
\* the counts given on the command line, besides the default
CountArgs == {-1, 0, 1, 2}
\* the count stored in a loaded configuration: PyNone for a file without the key
LoadedCounts == {PyNone, PyInt(-1), PyInt(0), PyInt(3)}

\* the count the entry point of script s passes on.  The account script passes
\* args.count as it is; the inventory script passes args.count or the loaded
\* row_count; the others clamp args.count to 1 and then, when it is the
\* default, take int(cfg.get("..._count", clamped)) from a loaded file.
effective_count(s, o, loaded) ==
    LET clamped == Max2(1, o.count)
        from_file(fallback) == IF loaded.count = PyNone THEN fallback ELSE loaded.count.n
    IN  IF s = "account" THEN o.count
        ELSE IF s = "inventory"
        THEN (IF o.load_config = "ok" THEN from_file(o.count) ELSE o.count)
        ELSE IF o.load_config = "ok" /\ o.count = DefaultCount(s)
        THEN from_file(clamped)
        ELSE clamped

\* the call generate_*(count, ...) of a non-batch run
PassCount ==
    /\ spc = "main"
    /\ count' = effective_count(script, opts, config)
    /\ spc' = "generate"
    /\ UNCHANGED <<gen, account_rows, account_ids, item_config, custom_attributes,
                   line_item_custom_attributes, tax_config, warehouse_config, locals,
                   pc, idx, item_idx, total_items, row, rows, chance, meta,
                   used_account_ids, used_account_names, unique_account_id, files,
                   payment_state, pm, script, opts, config, inputs_read, late_inputs,
                   batch_i, n_rows, written, output, exit_status, json_state>>

InitCount ==
    /\ InitRows({"invoice"}, {<<>>}, {0}, {default_item_config},
                [g \in {"invoice"} |-> {<<>>}], [g \in {"invoice"} |-> {<<>>}])
    /\ pm = [pos |-> "idle"]
    /\ script \in Scripts
    /\ opts \in [batch : {FALSE}, load_config : {"none", "ok"}, save_config : {FALSE},
                 count : CountArgs \cup {DefaultCount(script)}]
    /\ config \in (IF opts.load_config = "ok" THEN [count : LoadedCounts]
                   ELSE {[count |-> PyNone]})
    /\ spc = "main"
    /\ inputs_read = 0
    /\ late_inputs = 0
    /\ batch_i = 0
    /\ n_rows = 0
    /\ written = <<>>
    /\ output = {}
    /\ exit_status = -1
    /\ config_file = NoFile
    /\ loaded_config = PyNone

SpecCount == InitCount /\ [][PassCount]_vars

\* C29: in every non-batch run of every script the record count passed to
\* generation is at least 1, whatever integer count the command line gives
\* and whatever count a loaded configuration file stores.
C29_EffectiveCountAtLeastOne == spc = "generate" => count >= 1

\* the same for the counts the code does clamp: a command line count of the
\* seven scripts that apply max(1, args.count), with no count read from a file
C29_ClampedWhereMaxIsApplied ==
    (/\ spc = "generate"
     /\ script \notin {"account", "inventory"}
     /\ ~(opts.load_config = "ok" /\ opts.count = DefaultCount(script)
          /\ config.count # PyNone)) => count >= 1

-----------------------------------------------------------------------------
(* C30: an item_config without a maximum.                                  *)

\* prompt_order_item_config(): the two flags and the identifiers entered;
\* neither min_items_per_order nor max_items_per_order is set
prompt_order_item_config(choice) ==
    ItemConfig(TRUE, PyBool(choice \in {"1", "3"}), PyBool(choice \in {"2", "3"}),
               IF choice \in {"1", "3"} THEN <<"ITEM1">> ELSE <<>>, PyNone, PyNone)

\* mappings without a maximum, with and without a minimum, and the default
NoMaxItemConfigs ==
    {prompt_order_item_config(choice) : choice \in ItemChoices}
    \cup {ItemConfig(TRUE, PyBool(TRUE), PyBool(TRUE), <<"ITEM1">>, PyInt(lo), PyNone) :
            lo \in (-1)..MaxItems}
    \cup {default_item_config}

InitNoMax ==
    InitWith(Generators, AccountIdArgs, {0, 1}, NoMaxItemConfigs,
             [g \in Generators |-> {<<>>}], [g \in Generators |-> {<<>>}])

SpecNoMax == InitNoMax /\ [][Next]_vars

\* C30: when item_config has no maximum, every parent gets exactly
\* max(1, min) line items, min being 1 when the minimum is missing too; so
\* the mapping prompt_order_item_config returns gives one row per order,
\* while default_item_config allows every number of rows from 1 to 5.
C30_NoMaximumMeansExactlyTheMinimum ==
    /\ (item_config.given /\ item_config.max_items = PyNone) =>
          \A p \in FinishedParents :
              LET lo == IF item_config.min_items = PyNone THEN 1
                        ELSE item_config.min_items.n
              IN  Cardinality(RowsOf(p)) = (IF lo < 1 THEN 1 ELSE lo)
    /\ (gen = "order" /\ item_config \in {prompt_order_item_config(c) : c \in ItemChoices}) =>
          \A p \in FinishedParents : Cardinality(RowsOf(p)) = 1
    /\ (item_config = default_item_config /\ pc = "loop" /\ idx < count) =>
          \A t \in 1..DefaultMaxItems : ENABLED (BeginParent /\ total_items' = t)

\* a finished order call with the prompted mapping: one row for the order
C30_Witness ==
    /\ gen = "order"
    /\ item_config = prompt_order_item_config("3")
    /\ pc = "returned"
    /\ count = 1
    /\ Len(rows) = 1

====
